---- MODULE Spec2Model ----
(***************************************************************************)
(* Model of the chat orchestration core of the AI support system:          *)
(*   ChatController.sendMessage / sendMessageSync   (transport)            *)
(*   ChatService.streamChat / chat                  (session orchestrator) *)
(*   RouterAgent.route / processMessage / generateResponse   (delegator)   *)
(*   BaseAgent.streamResponse / generateResponse    (responder)            *)
(*   ConversationService                            (persistence)          *)
(* Strings that the code concatenates or measures are sequences of         *)
(* one-character strings; '' is the empty sequence.                        *)
(***************************************************************************)
EXTENDS Integers, Sequences, FiniteSets, TLC

\* ------------------------------------------------------------------ bounds
NumReqs == 2

Reqs == 1..NumReqs

\* ------------------------------------------------------- program constants
\* maxSteps handed to streamText / generateText
MAX_STEPS == 5

\* default page size of ConversationService.getMessages
DEFAULT_TAKE == 50

\* confidences are kept in tenths: 10 is 1.0, 5 is 0.5
CONF_NO_MESSAGE == 10

CONF_FALLBACK == 5

\* a conversation identifier that no conversation row carries
NO_SUCH_CONV == 99

\* ------------------------------------------------------------ value shapes
None == [tag |-> "none"]

Some(x) == [tag |-> "some", val |-> x]

AgentTypes == {"support", "order", "billing"}

AgentName(t) ==
  CASE t = "support" -> "Support Agent"
    [] t = "order" -> "Order Agent"
    [] t = "billing" -> "Billing Agent"

\* a lookup that also knows a responder for the classifier's own category
getAgent_withRouter(t) == IF t \in AgentTypes \cup {"router"} THEN Some(t) ELSE None

\* RouterAgent.getAgent: the three responders, null for anything else
getAgent(t) == IF t \in AgentTypes THEN Some(t) ELSE None

Ev(t, d) == [type |-> t, data |-> d]

TerminalTypes == {"done", "error"}

\* ---------------------------------------------- the text-generation script
\* One step of the tool loop as the capability answers it: the text it
\* streams, the tools it requests, and whether the step fails (the model
\* call or an action executor throws) after its calls were streamed.
Step(text, calls, throws) == [text |-> text, calls |-> calls, throws |-> throws]

PlainToolStep == Step(<<>>, <<"getOrder">>, FALSE)

ChattyToolStep == Step(<< <<"a">> >>, <<"getOrder", "listOrders">>, FALSE)

FinalSteps == { Step(<< <<"b">>, <<"c", "d">> >>, <<>>, FALSE),
                Step(<<>>, <<>>, FALSE),
                Step(<< <<"b">> >>, <<>>, TRUE),
                Step(<<>>, <<"listOrders">>, TRUE) }

\* the step still asks for tools, so the loop would go round again
Continues(s) == s.calls # <<>> /\ ~s.throws

\* n tool-requesting steps: all plain, or a chatty one first
ToolSeqs(n) ==
  { [i \in 1..n |-> PlainToolStep],
    [i \in 1..n |-> IF i = 1 THEN ChattyToolStep ELSE PlainToolStep] }

\* every behaviour of the capability over one tool loop: up to MAX_STEPS - 1
\* tool-requesting steps followed by a final step, or a capability that
\* still requests a tool on step MAX_STEPS + 1
Scripts ==
  { Append(p, f) : p \in UNION { ToolSeqs(n) : n \in 0..(MAX_STEPS - 1) }, f \in FinalSteps }
  \cup { Append(p, PlainToolStep) : p \in ToolSeqs(MAX_STEPS) }

\* number of steps the loop runs: it stops at the first step that does not
\* continue, and never runs more than maxSteps
RECURSIVE StepsRun(_, _, _)
StepsRun(script, i, maxSteps) ==
  IF i >= Len(script) \/ i >= maxSteps \/ ~Continues(script[i]) THEN i
  ELSE StepsRun(script, i + 1, maxSteps)

ArgsOf(tool) == [orderNumber |-> "ORD-1"]

ResultOf(tool) == [found |-> TRUE]

CallId(i, k) == 10 * i + k

\* the parts streamText puts on fullStream for step i
StepParts(s, i) ==
  LET deltas == [k \in 1..Len(s.text) |-> [type |-> "text-delta", textDelta |-> s.text[k]]]
      calls == [k \in 1..Len(s.calls) |->
                  [type |-> "tool-call", toolCallId |-> CallId(i, k),
                   toolName |-> s.calls[k], args |-> ArgsOf(s.calls[k])]]
      results == [k \in 1..Len(s.calls) |->
                  [type |-> "tool-result", toolCallId |-> CallId(i, k),
                   toolName |-> s.calls[k], result |-> ResultOf(s.calls[k])]]
  IN deltas \o calls \o
     (IF s.throws THEN << [type |-> "throw"] >>
      ELSE results \o << [type |-> "step-finish", step |-> i] >>)

RECURSIVE StreamFrom(_, _, _)
StreamFrom(script, i, n) ==
  IF i > n THEN << [type |-> "finish"] >>
  ELSE IF script[i].throws THEN StepParts(script[i], i)
  ELSE StepParts(script[i], i) \o StreamFrom(script, i + 1, n)

\* a tool loop that goes on for as long as the capability requests tools
FullStream_unbounded(script) == StreamFrom(script, 1, StepsRun(script, 1, Len(script)))

\* result.fullStream of streamText({..., maxSteps: 5})
FullStream(script) == StreamFrom(script, 1, StepsRun(script, 1, MAX_STEPS))

\* onStepFinish: one record per tool call of the step, with the result
\* whose toolCallId matches
onStepFinish(s, i) ==
  [k \in 1..Len(s.calls) |->
     [tool |-> s.calls[k], args |-> ArgsOf(s.calls[k]), result |-> ResultOf(s.calls[k])]]

\* does the tool loop fail somewhere
LoopThrows(script) ==
  \E i \in 1..StepsRun(script, 1, MAX_STEPS) : script[i].throws

RECURSIVE Concat(_)
Concat(ss) == IF ss = <<>> THEN <<>> ELSE Head(ss) \o Concat(Tail(ss))

RECURSIVE RecordsUpTo(_, _)
RecordsUpTo(script, n) ==
  IF n = 0 THEN <<>> ELSE RecordsUpTo(script, n - 1) \o onStepFinish(script[n], n)

\* BaseAgent.generateResponse: generateText runs the same loop to its end;
\* result.text is the text of the last step, toolCalls is what onStepFinish
\* collected, undefined when empty
AgentGenerateResponse(script) ==
  LET n == StepsRun(script, 1, MAX_STEPS)
      tc == RecordsUpTo(script, n)
  IN [content |-> Concat(script[n].text),
      toolCalls |-> IF Len(tc) > 0 THEN Some(tc) ELSE None]

\* outcomes of the single classification call: a decision naming a
\* responder category, a decision naming the classifier itself (the case
\* getAgent's default branch answers, should the call hand over arguments
\* outside routingSchema), no decision, or a failed call (which is also what
\* a rejected decision is)
RouteOutcomes == AgentTypes \cup {"router", "none", "throw"}

\* ------------------------------------------------------------------- state
VARIABLES
  conversation,   \* db.conversation: id -> [userId, title]
  message,        \* db.message rows in creation order
  input,          \* per request: mode and ChatInput
  llm,            \* per request: how the capability and the storage behave
  pc,             \* per request: where the request stands
  svc,            \* ChatService locals of the request
  rtr,            \* RouterAgent locals of the request
  agt,            \* BaseAgent.streamResponse locals of the request
  respOut,        \* events yielded by agent.streamResponse
  routerOut,      \* events yielded by router.processMessage
  svcOut,         \* events yielded by chatService.streamChat
  sse,            \* events written by stream.writeSSE
  result,         \* what chatService.chat returned
  raised,         \* the functions an exception escaped from
  writes,         \* the message rows the request created, in order
  abort,          \* per request: what had happened when the caller disconnected
  db,             \* the order, payment, subscription, user and FAQ tables
  executed,       \* the tool execution that returned last, with its result
  served,         \* the answers given so far to the requests about agents
  limiter,        \* rateLimitStore, the clock, and the request the limiter saw last
  reader          \* the web client reading one SSE response

vars == <<conversation, message, input, llm, pc, svc, rtr, agt,
          respOut, routerOut, svcOut, sse, result, raised, writes, abort, db, executed,
          served, limiter, reader>>

\* the state of the chat requests
chatVars == <<conversation, message, input, llm, pc, svc, rtr, agt,
              respOut, routerOut, svcOut, sse, result, raised, writes, abort>>

\* ------------------------------------------------------------- persistence
Min(a, b) == IF a < b THEN a ELSE b

MessagesOf(msgs, c) == SelectSeq(msgs, LAMBDA m : m.conversationId = c)

ConvExists(c) == c \in DOMAIN conversation

\* a getMessages that takes one row
getMessages_takesOne(msgs, c) ==
  LET all == MessagesOf(msgs, c)
  IN SubSeq(all, 1, Min(Len(all), 1))

\* ConversationService.getMessages without options: the first 50 rows of
\* the conversation in creation order
getMessages(msgs, c) ==
  LET all == MessagesOf(msgs, c)
  IN SubSeq(all, 1, Min(Len(all), DEFAULT_TAKE))

\* the row db.message.create inserts for ConversationService.addMessage
NewMessage(msgs, c, role, content, agentType, toolCalls) ==
  [id |-> Len(msgs) + 1, conversationId |-> c, role |-> role, content |-> content,
   agentType |-> agentType, toolCalls |-> toolCalls]

\* history.map(msg => ({role, content}))
ToCoreMessages(history) ==
  [i \in 1..Len(history) |-> [role |-> history[i].role, content |-> history[i].content]]

Ellipsis == <<".", ".", ".">>

TITLE_MAX == 50

TITLE_KEEP == 47

\* a title that keeps TITLE_MAX characters before the ellipsis
generateTitle_cutsAtMax(msgs, c) ==
  LET all == MessagesOf(msgs, c)
      firstTwo == SubSeq(all, 1, Min(Len(all), 2))
      users == SelectSeq(firstTwo, LAMBDA m : m.role = "user")
  IN IF Len(firstTwo) = 0 \/ Len(users) = 0 THEN None
     ELSE LET content == users[1].content
          IN Some(IF Len(content) > TITLE_MAX
                  THEN SubSeq(content, 1, TITLE_MAX) \o Ellipsis
                  ELSE content)

\* ConversationService.generateTitle: the title it writes, None when it
\* returns without writing
generateTitle(msgs, c) ==
  LET all == MessagesOf(msgs, c)
      firstTwo == SubSeq(all, 1, Min(Len(all), 2))
      users == SelectSeq(firstTwo, LAMBDA m : m.role = "user")
  IN IF Len(firstTwo) = 0 \/ Len(users) = 0 THEN None
     ELSE LET content == users[1].content
          IN Some(IF Len(content) > TITLE_MAX
                  THEN SubSeq(content, 1, TITLE_KEEP) \o Ellipsis
                  ELSE content)

\* ------------------------------------------------------------ ChatService
\* a loop body that adds the done event's text to the deltas it has summed
OnChunk_appendsDoneText(s, chunk) ==
  [s EXCEPT
     !.agentType = IF chunk.type = "routing" THEN chunk.data.agent ELSE @,
     !.fullResponse =
        IF chunk.type = "text_delta" THEN @ \o chunk.data.delta
        ELSE IF chunk.type = "done" THEN @ \o chunk.data.fullText
        ELSE @,
     !.toolCalls =
        IF chunk.type \in {"tool_call", "tool_result"} THEN Append(@, chunk.data)
        ELSE IF chunk.type = "done" THEN chunk.data.toolCalls
        ELSE @]

\* the body of streamChat's for-await loop before it yields the chunk
OnChunk(s, chunk) ==
  [s EXCEPT
     !.agentType = IF chunk.type = "routing" THEN chunk.data.agent ELSE @,
     !.fullResponse =
        IF chunk.type = "text_delta" THEN @ \o chunk.data.delta
        ELSE IF chunk.type = "done"
             THEN (IF chunk.data.fullText # <<>> THEN chunk.data.fullText ELSE @)
        ELSE @,
     !.toolCalls =
        IF chunk.type \in {"tool_call", "tool_result"} THEN Append(@, chunk.data)
        ELSE IF chunk.type = "done" THEN chunk.data.toolCalls
        ELSE @]

\* streamChat that accumulates the text but does not pass the deltas on
Relayed_dropsDeltas(chunk) == IF chunk.type = "text_delta" THEN <<>> ELSE << chunk >>

\* what streamChat yields for a chunk it took from the router: yield chunk
Relayed(chunk) == << chunk >>

\* toolCalls.filter((t) => t.tool).length > 0 ? toolCalls : undefined
PersistedToolCalls(tc) ==
  IF Len(SelectSeq(tc, LAMBDA t : t.tool # "")) > 0 THEN Some(tc) ELSE None

\* stream.writeSSE({event: chunk.type, data: JSON.stringify(chunk.data)})
WriteSSE(chunk) == [event |-> chunk.type, data |-> chunk.data]

\* what the caller has received after writeSSE was called for each of
\* written: a write to a stream whose reader is gone does nothing, and
\* writeSSE resolves all the same
Delivered(r, received, written) == IF abort[r] = None THEN received \o written ELSE received

\* streamChat yields chunks and sendMessage writes each of them
SvcYieldAll(r, chunks) ==
  /\ svcOut' = [svcOut EXCEPT ![r] = @ \o chunks]
  /\ sse' = [sse EXCEPT ![r] = Delivered(r, @, [i \in 1..Len(chunks) |-> WriteSSE(chunks[i])])]

SvcYield(r, chunk) == SvcYieldAll(r, << chunk >>)

\* processMessage yields a chunk: streamChat's loop body runs on it and
\* passes it on
RouterYield(r, chunk) ==
  /\ routerOut' = [routerOut EXCEPT ![r] = Append(@, chunk)]
  /\ svc' = [svc EXCEPT ![r] = OnChunk(@, chunk)]
  /\ SvcYieldAll(r, Relayed(chunk))

\* an exception leaves streamChat: sendMessage's catch writes an error event
StreamFails(r, msg, from) ==
  /\ sse' = [sse EXCEPT ![r] = Delivered(r, @, << WriteSSE(Ev("error", [message |-> msg])) >>)]
  /\ raised' = [raised EXCEPT ![r] = @ \cup from \cup {"streamChat"}]
  /\ pc' = [pc EXCEPT ![r] = "finished"]

\* an exception leaves chat: sendMessageSync fails with it
SyncFails(r, msg, from) ==
  /\ result' = [result EXCEPT ![r] = [ok |-> FALSE, message |-> msg]]
  /\ raised' = [raised EXCEPT ![r] = @ \cup from \cup {"chat"}]
  /\ pc' = [pc EXCEPT ![r] = "finished"]

Streaming(r) == input[r].mode = "stream"

\* a streamChat that creates the conversation without announcing it
Begin_unannounced(r) ==
  /\ pc[r] = "start"
  /\ IF input[r].conversationId = 0
     THEN /\ conversation' = Append(conversation, [userId |-> input[r].userId, title |-> None])
          /\ svc' = [svc EXCEPT ![r].conversationId = Len(conversation) + 1]
     ELSE /\ svc' = [svc EXCEPT ![r].conversationId = input[r].conversationId]
          /\ UNCHANGED conversation
  /\ pc' = [pc EXCEPT ![r] = "saveUser"]
  /\ UNCHANGED <<message, input, llm, rtr, agt, respOut, routerOut, svcOut, sse,
                 result, raised, writes>>
  /\ UNCHANGED <<abort, db, executed, served, limiter, reader>>

\* streamChat / chat: create the conversation when no id came with the request
Begin(r) ==
  /\ pc[r] = "start"
  /\ IF input[r].conversationId = 0
     THEN LET id == Len(conversation) + 1
          IN /\ conversation' = Append(conversation, [userId |-> input[r].userId, title |-> None])
             /\ svc' = [svc EXCEPT ![r].conversationId = id]
             /\ IF Streaming(r)
                THEN SvcYield(r, Ev("thinking", [message |-> "Starting new conversation...",
                                                 conversationId |-> id]))
                ELSE UNCHANGED <<svcOut, sse>>
     ELSE /\ svc' = [svc EXCEPT ![r].conversationId = input[r].conversationId]
          /\ UNCHANGED <<conversation, svcOut, sse>>
  /\ pc' = [pc EXCEPT ![r] = "saveUser"]
  /\ UNCHANGED <<message, input, llm, rtr, agt, respOut, routerOut, result, raised, writes>>
  /\ UNCHANGED <<abort, db, executed, served, limiter, reader>>

\* an addMessage that writes over the newest row when that is an unanswered
\* user message of the same conversation
SaveUserMessage_replacesUnanswered(r) ==
  /\ pc[r] = "saveUser"
  /\ IF ConvExists(svc[r].conversationId) /\ llm[r].dbFail # "user"
     THEN LET last == Len(message)
              pending == /\ last > 0
                         /\ message[last].conversationId = svc[r].conversationId
                         /\ message[last].role = "user"
              id == IF pending THEN last ELSE last + 1
              row == [NewMessage(message, svc[r].conversationId, "user",
                                 input[r].message, "null", None) EXCEPT !.id = id]
          IN /\ message' = IF pending THEN [message EXCEPT ![last] = row]
                                       ELSE Append(message, row)
             /\ writes' = [writes EXCEPT ![r] = Append(@, [id |-> id, role |-> "user"])]
             /\ pc' = [pc EXCEPT ![r] = "getHistory"]
             /\ UNCHANGED <<sse, result, raised>>
     ELSE /\ IF Streaming(r)
             THEN StreamFails(r, "storage", {"addMessage"}) /\ UNCHANGED result
             ELSE SyncFails(r, "storage", {"addMessage"}) /\ UNCHANGED sse
          /\ UNCHANGED <<message, writes>>
  /\ UNCHANGED <<conversation, input, llm, svc, rtr, agt, respOut, routerOut, svcOut>>
  /\ UNCHANGED <<abort, db, executed, served, limiter, reader>>

\* conversationService.addMessage({role: 'user', ...})
SaveUserMessage(r) ==
  /\ pc[r] = "saveUser"
  /\ IF ConvExists(svc[r].conversationId) /\ llm[r].dbFail # "user"
     THEN /\ message' = Append(message, NewMessage(message, svc[r].conversationId, "user",
                                                   input[r].message, "null", None))
          /\ writes' = [writes EXCEPT ![r] = Append(@, [id |-> Len(message) + 1, role |-> "user"])]
          /\ pc' = [pc EXCEPT ![r] = "getHistory"]
          /\ UNCHANGED <<sse, result, raised>>
     ELSE /\ IF Streaming(r)
             THEN StreamFails(r, "storage", {"addMessage"}) /\ UNCHANGED result
             ELSE SyncFails(r, "storage", {"addMessage"}) /\ UNCHANGED sse
          /\ UNCHANGED <<message, writes>>
  /\ UNCHANGED <<conversation, input, llm, svc, rtr, agt, respOut, routerOut, svcOut>>
  /\ UNCHANGED <<abort, db, executed, served, limiter, reader>>

\* conversationService.getMessages(conversationId), then the router is called
GetHistory(r) ==
  /\ pc[r] = "getHistory"
  /\ svc' = [svc EXCEPT ![r].history = getMessages(message, svc[r].conversationId)]
  /\ pc' = [pc EXCEPT ![r] = IF Streaming(r) THEN "analyzing" ELSE "syncRoute"]
  /\ UNCHANGED <<conversation, message, input, llm, rtr, agt,
                 respOut, routerOut, svcOut, sse, result, raised, writes>>
  /\ UNCHANGED <<abort, db, executed, served, limiter, reader>>

\* ------------------------------------------------------------ RouterAgent
LastUser(messages) ==
  LET users == SelectSeq(messages, LAMBDA m : m.role = "user")
  IN IF Len(users) = 0 THEN None ELSE Some(users[Len(users)])

\* a route without the early return for a history that has no user message
route_noShortcut(messages, outcome) ==
  IF outcome = "throw" THEN [tag |-> "throw", calls |-> 1]
  ELSE IF outcome = "none"
  THEN [tag |-> "ok", agent |-> "support", calls |-> 1,
        routing |-> [agent |-> "support", confidence |-> CONF_FALLBACK,
                     reasoning |-> "Could not determine intent, defaulting to support"]]
  ELSE LET routing == [agent |-> outcome, confidence |-> 9, reasoning |-> "classified"]
           found == getAgent(routing.agent)
       IN [tag |-> "ok", calls |-> 1, routing |-> routing,
           agent |-> IF found # None THEN found.val ELSE "support"]

\* RouterAgent.route: outcome is what the classification call does when it
\* is made; calls counts the calls made to the capability
route(messages, outcome) ==
  IF LastUser(messages) = None
  THEN [tag |-> "ok", agent |-> "support", calls |-> 0,
        routing |-> [agent |-> "support", confidence |-> CONF_NO_MESSAGE,
                     reasoning |-> "No user message found, defaulting to support"]]
  ELSE IF outcome = "throw" THEN [tag |-> "throw", calls |-> 1]
  ELSE IF outcome = "none"
  THEN [tag |-> "ok", agent |-> "support", calls |-> 1,
        routing |-> [agent |-> "support", confidence |-> CONF_FALLBACK,
                     reasoning |-> "Could not determine intent, defaulting to support"]]
  ELSE LET routing == [agent |-> outcome, confidence |-> 9, reasoning |-> "classified"]
           found == getAgent(routing.agent)
       IN [tag |-> "ok", calls |-> 1, routing |-> routing,
           agent |-> IF found # None THEN found.val ELSE "support"]

\* processMessage without its catch block
processMessageCatch_rethrows(msg) == None

\* the catch block of processMessage: the event it yields for an error
processMessageCatch(msg) == Some(Ev("error", [message |-> msg]))

\* an error is raised inside processMessage's try block
RouterFails(r, msg, from) ==
  LET caught == processMessageCatch(msg)
  IN IF caught # None
     THEN /\ RouterYield(r, caught.val)
          /\ raised' = [raised EXCEPT ![r] = @ \cup from]
          /\ pc' = [pc EXCEPT ![r] = "saveAssistant"]
     ELSE /\ StreamFails(r, msg, from \cup {"processMessage"})
          /\ UNCHANGED <<routerOut, svc, svcOut>>

\* yield {type: 'thinking', data: {message: 'Analyzing your request...'}}
Analyzing(r) ==
  /\ pc[r] = "analyzing"
  /\ RouterYield(r, Ev("thinking", [message |-> "Analyzing your request..."]))
  /\ pc' = [pc EXCEPT ![r] = "route"]
  /\ UNCHANGED <<conversation, message, input, llm, rtr, agt, respOut, result, raised, writes>>
  /\ UNCHANGED <<abort, db, executed, served, limiter, reader>>

\* a processMessage that gives up when route fell back to its default
Route_abortsOnFallback(r) ==
  /\ pc[r] = "route"
  /\ LET res == route(ToCoreMessages(svc[r].history), llm[r].route)
         ok == res.tag = "ok" /\ res.routing.confidence # CONF_FALLBACK
     IN /\ rtr' = [rtr EXCEPT ![r].calls = @ + res.calls,
                              ![r].agent = IF ok THEN res.agent ELSE @,
                              ![r].routing = IF ok THEN Some(res.routing) ELSE @]
        /\ IF ok
           THEN /\ RouterYield(r, Ev("routing",
                       [agent |-> res.agent, agentName |-> AgentName(res.agent),
                        reason |-> res.routing.reasoning,
                        confidence |-> res.routing.confidence]))
                /\ pc' = [pc EXCEPT ![r] = "connect"]
                /\ UNCHANGED raised
           ELSE RouterFails(r, "classification failed", {"route"})
  /\ UNCHANGED <<conversation, message, input, llm, agt, respOut, result, writes>>
  /\ UNCHANGED <<abort, db, executed, served, limiter, reader>>

\* await this.route(context), then the routing event
Route(r) ==
  /\ pc[r] = "route"
  /\ LET res == route(ToCoreMessages(svc[r].history), llm[r].route)
     IN /\ rtr' = [rtr EXCEPT ![r].calls = @ + res.calls,
                              ![r].agent = IF res.tag = "ok" THEN res.agent ELSE @,
                              ![r].routing = IF res.tag = "ok" THEN Some(res.routing) ELSE @]
        /\ IF res.tag = "ok"
           THEN /\ RouterYield(r, Ev("routing",
                       [agent |-> res.agent, agentName |-> AgentName(res.agent),
                        reason |-> res.routing.reasoning,
                        confidence |-> res.routing.confidence]))
                /\ pc' = [pc EXCEPT ![r] = "connect"]
                /\ UNCHANGED raised
           ELSE RouterFails(r, "classification failed", {"route"})
  /\ UNCHANGED <<conversation, message, input, llm, agt, respOut, result, writes>>
  /\ UNCHANGED <<abort, db, executed, served, limiter, reader>>

\* processMessage that announces the responder with a second routing event
Connect_routesAgain(r) ==
  /\ pc[r] = "connect"
  /\ RouterYield(r, Ev("routing", [agent |-> rtr[r].agent, agentName |-> AgentName(rtr[r].agent),
                                   reason |-> "connecting", confidence |-> CONF_NO_MESSAGE]))
  /\ agt' = [agt EXCEPT ![r] = [stream |-> FullStream(llm[r].script),
                                fullText |-> <<>>, toolCalls |-> <<>>, steps |-> 0]]
  /\ rtr' = [rtr EXCEPT ![r].calls = @ + 1]
  /\ pc' = [pc EXCEPT ![r] = "responding"]
  /\ UNCHANGED <<conversation, message, input, llm, respOut, result, raised, writes>>
  /\ UNCHANGED <<abort, db, executed, served, limiter, reader>>

\* the second thinking event; agent.streamResponse(context) starts
Connect(r) ==
  /\ pc[r] = "connect"
  /\ RouterYield(r, Ev("thinking", [message |-> <<"Connecting you with", AgentName(rtr[r].agent)>>]))
  /\ agt' = [agt EXCEPT ![r] = [stream |-> FullStream(llm[r].script),
                                fullText |-> <<>>, toolCalls |-> <<>>, steps |-> 0]]
  /\ rtr' = [rtr EXCEPT ![r].calls = @ + 1]
  /\ pc' = [pc EXCEPT ![r] = "responding"]
  /\ UNCHANGED <<conversation, message, input, llm, respOut, result, raised, writes>>
  /\ UNCHANGED <<abort, db, executed, served, limiter, reader>>

\* ---------------------------------------------------------------- BaseAgent
\* a loop whose switch has the tool-call and tool-result cases exchanged
EventOf_swapped(part) ==
  CASE part.type = "tool-call" ->
         Some(Ev("tool_result", [tool |-> part.toolName, result |-> part.args]))
    [] part.type = "tool-result" ->
         Some(Ev("tool_call", [tool |-> part.toolName, args |-> part.result]))
    [] part.type = "text-delta" ->
         Some(Ev("text_delta", [delta |-> part.textDelta]))
    [] OTHER -> None

\* the event streamResponse yields for a part of fullStream, None for the
\* parts its loop passes over
EventOf(part) ==
  CASE part.type = "tool-call" ->
         Some(Ev("tool_call", [tool |-> part.toolName, args |-> part.args]))
    [] part.type = "tool-result" ->
         Some(Ev("tool_result", [tool |-> part.toolName, result |-> part.result]))
    [] part.type = "text-delta" ->
         Some(Ev("text_delta", [delta |-> part.textDelta]))
    [] OTHER -> None

\* what processMessage yields for a chunk of the responder: yield chunk
Forwarded(chunk) == chunk

\* streamResponse yields a chunk and processMessage forwards it
AgentYield(r, chunk) ==
  /\ respOut' = [respOut EXCEPT ![r] = Append(@, chunk)]
  /\ RouterYield(r, Forwarded(chunk))

\* one part of fullStream is taken by streamResponse's for-await loop
AgentPart(r) ==
  /\ pc[r] = "responding"
  /\ agt[r].stream # <<>>
  /\ LET part == Head(agt[r].stream)
         ev == EventOf(part)
     IN IF part.type = "throw"
        THEN /\ RouterFails(r, "responder failed", {"streamResponse"})
             /\ agt' = [agt EXCEPT ![r].stream = <<>>]
             /\ UNCHANGED respOut
        ELSE /\ agt' = [agt EXCEPT
                  ![r].stream = Tail(@),
                  ![r].fullText = IF part.type = "text-delta" THEN @ \o part.textDelta ELSE @,
                  ![r].toolCalls = IF part.type = "step-finish"
                                   THEN @ \o onStepFinish(llm[r].script[part.step], part.step)
                                   ELSE @,
                  ![r].steps = IF part.type = "step-finish" THEN @ + 1 ELSE @]
             /\ IF ev # None THEN AgentYield(r, ev.val)
                ELSE UNCHANGED <<respOut, routerOut, svc, svcOut, sse>>
             /\ UNCHANGED <<pc, raised>>
  /\ UNCHANGED <<conversation, message, input, llm, rtr, result, writes>>
  /\ UNCHANGED <<abort, db, executed, served, limiter, reader>>

\* fullStream is exhausted: yield {type: 'done', data: {fullText, toolCalls}}
AgentDone(r) ==
  /\ pc[r] = "responding"
  /\ agt[r].stream = <<>>
  /\ AgentYield(r, Ev("done", [fullText |-> agt[r].fullText, toolCalls |-> agt[r].toolCalls]))
  /\ pc' = [pc EXCEPT ![r] = "saveAssistant"]
  /\ UNCHANGED <<conversation, message, input, llm, rtr, agt, result, raised, writes>>
  /\ UNCHANGED <<abort, db, executed, served, limiter, reader>>

\* ------------------------------------------------- RouterAgent, sync path
\* RouterAgent.generateResponse: await this.route(context)
SyncRoute(r) ==
  /\ pc[r] = "syncRoute"
  /\ LET res == route(ToCoreMessages(svc[r].history), llm[r].route)
     IN /\ rtr' = [rtr EXCEPT ![r].calls = @ + res.calls,
                              ![r].agent = IF res.tag = "ok" THEN res.agent ELSE @,
                              ![r].routing = IF res.tag = "ok" THEN Some(res.routing) ELSE @]
        /\ IF res.tag = "ok"
           THEN /\ pc' = [pc EXCEPT ![r] = "syncGenerate"]
                /\ UNCHANGED <<result, raised>>
           ELSE SyncFails(r, "classification failed", {"route", "generateResponse"})
  /\ UNCHANGED <<conversation, message, input, llm, svc, agt,
                 respOut, routerOut, svcOut, sse, writes>>
  /\ UNCHANGED <<abort, db, executed, served, limiter, reader>>

\* RouterAgent.generateResponse: await agent.generateResponse(context)
SyncGenerate(r) ==
  /\ pc[r] = "syncGenerate"
  /\ IF LoopThrows(llm[r].script)
     THEN /\ SyncFails(r, "responder failed", {"generateResponse"})
          /\ rtr' = [rtr EXCEPT ![r].calls = @ + 1]
     ELSE /\ rtr' = [rtr EXCEPT ![r].calls = @ + 1,
                                ![r].response = Some(AgentGenerateResponse(llm[r].script))]
          /\ pc' = [pc EXCEPT ![r] = "saveAssistant"]
          /\ UNCHANGED <<result, raised>>
  /\ UNCHANGED <<conversation, message, input, llm, svc, agt,
                 respOut, routerOut, svcOut, sse, writes>>
  /\ UNCHANGED <<abort, db, executed, served, limiter, reader>>

\* --------------------------------------------- ChatService, after the router
\* the assistant row streamChat saves once its for-await loop has ended
StreamAssistantRow(r) ==
  NewMessage(message, svc[r].conversationId, "assistant", svc[r].fullResponse,
             svc[r].agentType, PersistedToolCalls(svc[r].toolCalls))

\* the assistant row chat saves from the router's result
ChatAssistantRow(r) ==
  NewMessage(message, svc[r].conversationId, "assistant", rtr[r].response.val.content,
             rtr[r].agent, rtr[r].response.val.toolCalls)

\* streamChat that saves the assistant message from inside its for-await
\* loop, as chunks arrive, and again after the loop
StreamSaveAssistant_insideLoop(r) ==
  /\ pc[r] \in {"responding", "saveAssistant"}
  /\ Streaming(r)
  /\ Len(SelectSeq(writes[r], LAMBDA w : w.role = "assistant")) < 2
  /\ message' = Append(message, StreamAssistantRow(r))
  /\ writes' = [writes EXCEPT ![r] = Append(@, [id |-> Len(message) + 1, role |-> "assistant"])]
  /\ svc' = [svc EXCEPT ![r].savedMessage = Len(message) + 1]
  /\ pc' = [pc EXCEPT ![r] = IF pc[r] = "responding" THEN "responding"
                             ELSE IF Len(svc[r].history) = 1 THEN "title" ELSE "finalDone"]
  /\ UNCHANGED <<conversation, input, llm, rtr, agt, respOut, routerOut, svcOut, result,
                 sse, raised>>
  /\ UNCHANGED <<abort, db, executed, served, limiter, reader>>

\* conversationService.addMessage({role: 'assistant', ...}) in streamChat
StreamSaveAssistant(r) ==
  /\ pc[r] = "saveAssistant"
  /\ Streaming(r)
  /\ IF ConvExists(svc[r].conversationId) /\ llm[r].dbFail # "assistant"
     THEN /\ message' = Append(message, StreamAssistantRow(r))
          /\ writes' = [writes EXCEPT ![r] = Append(@, [id |-> Len(message) + 1, role |-> "assistant"])]
          /\ svc' = [svc EXCEPT ![r].savedMessage = Len(message) + 1]
          /\ pc' = [pc EXCEPT ![r] = IF Len(svc[r].history) = 1 THEN "title" ELSE "finalDone"]
          /\ UNCHANGED <<sse, raised>>
     ELSE /\ StreamFails(r, "storage", {"addMessage"})
          /\ UNCHANGED <<message, writes, svc>>
  /\ UNCHANGED <<conversation, input, llm, rtr, agt, respOut, routerOut, svcOut, result>>
  /\ UNCHANGED <<abort, db, executed, served, limiter, reader>>

\* a chat that stores the answer by updating the row of its user message
ChatSaveAssistant_updatesUserMessage(r) ==
  /\ pc[r] = "saveAssistant"
  /\ ~Streaming(r)
  /\ IF ConvExists(svc[r].conversationId) /\ llm[r].dbFail # "assistant"
     THEN /\ message' = [message EXCEPT ![writes[r][1].id] =
                           [ChatAssistantRow(r) EXCEPT !.id = writes[r][1].id]]
          /\ writes' = [writes EXCEPT ![r] = Append(@, [id |-> writes[r][1].id, role |-> "assistant"])]
          /\ svc' = [svc EXCEPT ![r].savedMessage = writes[r][1].id]
          /\ pc' = [pc EXCEPT ![r] = IF Len(svc[r].history) = 1 THEN "title" ELSE "return"]
          /\ UNCHANGED <<result, raised>>
     ELSE /\ SyncFails(r, "storage", {"addMessage"})
          /\ UNCHANGED <<message, writes, svc>>
  /\ UNCHANGED <<conversation, input, llm, rtr, agt, respOut, routerOut, svcOut, sse>>
  /\ UNCHANGED <<abort, db, executed, served, limiter, reader>>

\* conversationService.addMessage({role: 'assistant', ...}) in chat
ChatSaveAssistant(r) ==
  /\ pc[r] = "saveAssistant"
  /\ ~Streaming(r)
  /\ IF ConvExists(svc[r].conversationId) /\ llm[r].dbFail # "assistant"
     THEN /\ message' = Append(message, ChatAssistantRow(r))
          /\ writes' = [writes EXCEPT ![r] = Append(@, [id |-> Len(message) + 1, role |-> "assistant"])]
          /\ svc' = [svc EXCEPT ![r].savedMessage = Len(message) + 1]
          /\ pc' = [pc EXCEPT ![r] = IF Len(svc[r].history) = 1 THEN "title" ELSE "return"]
          /\ UNCHANGED <<result, raised>>
     ELSE /\ SyncFails(r, "storage", {"addMessage"})
          /\ UNCHANGED <<message, writes, svc>>
  /\ UNCHANGED <<conversation, input, llm, rtr, agt, respOut, routerOut, svcOut, sse>>
  /\ UNCHANGED <<abort, db, executed, served, limiter, reader>>

\* if (history.length === 1) await conversationService.generateTitle(id)
GenerateTitle(r) ==
  /\ pc[r] = "title"
  /\ LET title == generateTitle(message, svc[r].conversationId)
         c == svc[r].conversationId
     IN conversation' = IF title # None /\ ConvExists(c)
                        THEN [conversation EXCEPT ![c].title = title]
                        ELSE conversation
  /\ pc' = [pc EXCEPT ![r] = IF Streaming(r) THEN "finalDone" ELSE "return"]
  /\ UNCHANGED <<message, input, llm, svc, rtr, agt,
                 respOut, routerOut, svcOut, sse, result, raised, writes>>
  /\ UNCHANGED <<abort, db, executed, served, limiter, reader>>

\* a terminal event that names the newest message of the history it loaded
FinalDone_namesHistory(r) ==
  /\ pc[r] = "finalDone"
  /\ SvcYield(r, Ev("done", [conversationId |-> svc[r].conversationId,
                             messageId |-> svc[r].history[Len(svc[r].history)].id,
                             agentType |-> svc[r].agentType,
                             fullText |-> svc[r].fullResponse]))
  /\ pc' = [pc EXCEPT ![r] = "finished"]
  /\ UNCHANGED <<conversation, message, input, llm, svc, rtr, agt,
                 respOut, routerOut, result, raised, writes>>
  /\ UNCHANGED <<abort, db, executed, served, limiter, reader>>

\* streamChat's own terminal event
FinalDone(r) ==
  /\ pc[r] = "finalDone"
  /\ SvcYield(r, Ev("done", [conversationId |-> svc[r].conversationId,
                             messageId |-> svc[r].savedMessage,
                             agentType |-> svc[r].agentType,
                             fullText |-> svc[r].fullResponse]))
  /\ pc' = [pc EXCEPT ![r] = "finished"]
  /\ UNCHANGED <<conversation, message, input, llm, svc, rtr, agt,
                 respOut, routerOut, result, raised, writes>>
  /\ UNCHANGED <<abort, db, executed, served, limiter, reader>>

\* toolCalls?.map((t) => t.tool) || []
ToolsUsed(tc) == IF tc = None THEN <<>> ELSE [i \in 1..Len(tc.val) |-> tc.val[i].tool]

\* chat returns its result
Return(r) ==
  /\ pc[r] = "return"
  /\ result' = [result EXCEPT ![r] =
        [ok |-> TRUE, conversationId |-> svc[r].conversationId,
         messageId |-> svc[r].savedMessage, agentType |-> rtr[r].agent,
         response |-> rtr[r].response.val.content,
         toolsUsed |-> ToolsUsed(rtr[r].response.val.toolCalls)]]
  /\ pc' = [pc EXCEPT ![r] = "finished"]
  /\ UNCHANGED <<conversation, message, input, llm, svc, rtr, agt,
                 respOut, routerOut, svcOut, sse, raised, writes>>
  /\ UNCHANGED <<abort, db, executed, served, limiter, reader>>

\* ------------------------------------------------------------ initial state
\* a conversation as earlier requests left it: user and assistant messages
\* in turn, n of them
PriorMessages(c, n, base) ==
  [i \in 1..n |->
     IF i % 2 = 1
     THEN [id |-> base + i, conversationId |-> c, role |-> "user", content |-> <<"q">>,
           agentType |-> "null", toolCalls |-> None]
     ELSE [id |-> base + i, conversationId |-> c, role |-> "assistant", content |-> <<"r">>,
           agentType |-> "support", toolCalls |-> None]]

PriorConversation(n) ==
  [userId |-> "u1", title |-> IF n >= 2 THEN Some(<<"q">>) ELSE None]

PriorLens == {0, 1, 2, DEFAULT_TAKE - 1, DEFAULT_TAKE}

UserMessage == <<"h", "i">>

Modes == {"stream", "sync"}

ChatInput(mode, c) == [mode |-> mode, userId |-> "u1", conversationId |-> c, message |-> UserMessage]

\* the store and the conversationId of the request: no id, the id of the
\* stored conversation, or an id no conversation has
Scenarios ==
  [prior : {2}, conversationId : {0, NO_SUCH_CONV}] \cup [prior : PriorLens, conversationId : {1}]

\* how the capability and the storage behave during one request; the
\* script is left out where the tool loop is never reached
Behaviours ==
  [route : AgentTypes \cup {"none"}, script : Scripts, dbFail : {"none", "assistant"}]
  \cup [route : {"router"}, script : {<< PlainToolStep, Step(<< <<"b">> >>, <<>>, FALSE) >>},
         dbFail : {"none"}]
  \cup [route : {"throw"}, script : {<< PlainToolStep >>}, dbFail : {"none", "assistant"}]
  \cup [route : {"none"}, script : {<< PlainToolStep >>}, dbFail : {"user"}]

IdleInput == [mode |-> "stream", userId |-> "u1", conversationId |-> 0, message |-> <<>>]

IdleBehaviour == [route |-> "none", script |-> <<>>, dbFail |-> "none"]

\* the names a capabilities request can carry in its :type parameter
RequestedTypes == AgentTypes \cup {"router", "other"}

NothingServed == [agents |-> {}, capabilities |-> [t \in RequestedTypes |-> {}]]

\* the keys chatRateLimit makes of the x-user-id header
ChatKeys == {"chat:u1", "chat:anonymous"}

\* an empty rateLimitStore at time 0, no request seen
NoTraffic ==
  [store |-> [k \in ChatKeys |-> None], now |-> 0, admitted |-> [k \in ChatKeys |-> 0],
   last |-> None]

\* no response is being read
NoResponse ==
  [sent |-> <<>>, wire |-> <<>>, closed |-> FALSE, buffer |-> <<>>, yielded |-> <<>>,
   done |-> FALSE]

\* none of the tables the tools read holds a row
NoRecords == [order |-> {}, payment |-> {}, subscription |-> {}, user |-> {}, faq |-> {}]

\* no request has done anything yet
InitRequests ==
  /\ abort = [r \in Reqs |-> None]
  /\ svc = [r \in Reqs |-> [conversationId |-> 0, history |-> <<>>, fullResponse |-> <<>>,
                            agentType |-> "support", toolCalls |-> <<>>, savedMessage |-> 0]]
  /\ rtr = [r \in Reqs |-> [agent |-> "support", routing |-> None, calls |-> 0, response |-> None]]
  /\ agt = [r \in Reqs |-> [stream |-> <<>>, fullText |-> <<>>, toolCalls |-> <<>>, steps |-> 0]]
  /\ respOut = [r \in Reqs |-> <<>>]
  /\ routerOut = [r \in Reqs |-> <<>>]
  /\ svcOut = [r \in Reqs |-> <<>>]
  /\ sse = [r \in Reqs |-> <<>>]
  /\ result = [r \in Reqs |-> None]
  /\ raised = [r \in Reqs |-> {}]
  /\ writes = [r \in Reqs |-> <<>>]

InitLocals ==
  /\ InitRequests
  /\ db = NoRecords
  /\ executed = <<>>
  /\ served = NothingServed
  /\ limiter = NoTraffic
  /\ reader = NoResponse

\* one request against a store that holds one earlier conversation
Init ==
  /\ \E sc \in Scenarios, mode \in Modes, b \in Behaviours :
       /\ conversation = << PriorConversation(sc.prior) >>
       /\ message = PriorMessages(1, sc.prior, 0)
       /\ input = [r \in Reqs |-> IF r = 1 THEN ChatInput(mode, sc.conversationId) ELSE IdleInput]
       /\ llm = [r \in Reqs |-> IF r = 1 THEN b ELSE IdleBehaviour]
  /\ pc = [r \in Reqs |-> IF r = 1 THEN "start" ELSE "idle"]
  /\ InitLocals

Next ==
  \E r \in Reqs :
    \/ Begin(r)
    \/ SaveUserMessage(r)
    \/ GetHistory(r)
    \/ Analyzing(r)
    \/ Route(r)
    \/ Connect(r)
    \/ AgentPart(r)
    \/ AgentDone(r)
    \/ SyncRoute(r)
    \/ SyncGenerate(r)
    \/ StreamSaveAssistant(r)
    \/ ChatSaveAssistant(r)
    \/ GenerateTitle(r)
    \/ FinalDone(r)
    \/ Return(r)

Spec == Init /\ [][Next]_vars

\* a handler that can take its next step takes it: the runtime resumes every
\* pending await and every consumer keeps pulling from its generator
Fairness == WF_vars(Next)

\* one request, as in Init, against a store whose earlier conversation holds
\* one finished exchange
InitFair ==
  /\ \E c \in {0, 1, NO_SUCH_CONV}, mode \in Modes, b \in Behaviours :
       /\ conversation = << PriorConversation(2) >>
       /\ message = PriorMessages(1, 2, 0)
       /\ input = [r \in Reqs |-> IF r = 1 THEN ChatInput(mode, c) ELSE IdleInput]
       /\ llm = [r \in Reqs |-> IF r = 1 THEN b ELSE IdleBehaviour]
  /\ pc = [r \in Reqs |-> IF r = 1 THEN "start" ELSE "idle"]
  /\ InitLocals

SpecFair == InitFair /\ [][Next]_vars /\ Fairness

\* ------------------------------------------- the router on any context
\* AgentContext.messages is whatever the caller hands to processMessage or
\* generateResponse: any roles in any order, none included
MaxContext == 2

Roles == {"user", "assistant", "system"}

ContextRoles == UNION { [1..n -> Roles] : n \in 0..MaxContext }

ContextRows(roles) ==
  [i \in 1..Len(roles) |->
     [id |-> i, conversationId |-> 1, role |-> roles[i], content |-> <<"q">>,
      agentType |-> IF roles[i] = "assistant" THEN "support" ELSE "null", toolCalls |-> None]]

RouterBehaviours ==
  [route : RouteOutcomes,
   script : { << PlainToolStep, Step(<< <<"b">> >>, <<>>, FALSE) >>,
              << Step(<< <<"b">> >>, <<>>, FALSE) >>,
              << Step(<< <<"b">> >>, <<>>, TRUE) >> },
   dbFail : {"none"}]

\* request 1 is about to call the router with a context of its own
InitRouter ==
  /\ \E roles \in ContextRoles, mode \in Modes, b \in RouterBehaviours :
       /\ conversation = << PriorConversation(Len(roles)) >>
       /\ message = ContextRows(roles)
       /\ input = [r \in Reqs |-> IF r = 1 THEN ChatInput(mode, 1) ELSE IdleInput]
       /\ llm = [r \in Reqs |-> IF r = 1 THEN b ELSE IdleBehaviour]
       /\ pc = [r \in Reqs |-> IF r # 1 THEN "idle"
                                ELSE IF mode = "stream" THEN "analyzing" ELSE "syncRoute"]
       /\ svc = [r \in Reqs |->
                  [conversationId |-> IF r = 1 THEN 1 ELSE 0,
                   history |-> IF r = 1 THEN ContextRows(roles) ELSE <<>>,
                   fullResponse |-> <<>>, agentType |-> "support", toolCalls |-> <<>>,
                   savedMessage |-> 0]]
  /\ rtr = [r \in Reqs |-> [agent |-> "support", routing |-> None, calls |-> 0, response |-> None]]
  /\ agt = [r \in Reqs |-> [stream |-> <<>>, fullText |-> <<>>, toolCalls |-> <<>>, steps |-> 0]]
  /\ respOut = [r \in Reqs |-> <<>>]
  /\ routerOut = [r \in Reqs |-> <<>>]
  /\ svcOut = [r \in Reqs |-> <<>>]
  /\ sse = [r \in Reqs |-> <<>>]
  /\ result = [r \in Reqs |-> None]
  /\ raised = [r \in Reqs |-> {}]
  /\ writes = [r \in Reqs |-> <<>>]
  /\ abort = [r \in Reqs |-> None]
  /\ db = NoRecords
  /\ executed = <<>>
  /\ served = NothingServed
  /\ limiter = NoTraffic
  /\ reader = NoResponse

\* the steps of RouterAgent and of the responder it selects
NextRouter ==
  \E r \in Reqs :
    \/ Analyzing(r)
    \/ Route(r)
    \/ Connect(r)
    \/ AgentPart(r)
    \/ AgentDone(r)
    \/ SyncRoute(r)
    \/ SyncGenerate(r)

SpecRouter == InitRouter /\ [][NextRouter]_vars

\* -------------------------------------------------- titles of any length
\* message contents around the two lengths generateTitle compares with; the
\* character at a position depends on the position
Digits == <<"0", "1", "2", "3", "4", "5", "6", "7", "8", "9">>

TextOfLen(n, shift) == [i \in 1..n |-> Digits[((i + shift) % Len(Digits)) + 1]]

TitleLens == {1, TITLE_KEEP, TITLE_MAX - 1, TITLE_MAX, TITLE_MAX + 1, TITLE_MAX + TITLE_KEEP}

TitleTexts == { TextOfLen(n, shift) : n \in TitleLens, shift \in {0, 1} }

TitleBehaviours ==
  [route : {"order"},
   script : { << PlainToolStep, Step(<< <<"b">> >>, <<>>, FALSE) >>,
              << Step(<< <<"b">> >>, <<>>, FALSE) >> },
   dbFail : {"none"}]

\* the first request of a conversation, new or created empty beforehand
InitTitle ==
  /\ \E c \in {0, 1}, mode \in Modes, text \in TitleTexts, b \in TitleBehaviours :
       /\ conversation = << PriorConversation(0) >>
       /\ message = PriorMessages(1, 0, 0)
       /\ input = [r \in Reqs |-> IF r = 1 THEN [ChatInput(mode, c) EXCEPT !.message = text]
                                   ELSE IdleInput]
       /\ llm = [r \in Reqs |-> IF r = 1 THEN b ELSE IdleBehaviour]
  /\ pc = [r \in Reqs |-> IF r = 1 THEN "start" ELSE "idle"]
  /\ InitLocals

SpecTitle == InitTitle /\ [][Next]_vars

\* ------------------------------------------------ the HTTP layer in front
\* sendMessageRequestSchema.safeParse(body): the issues it finds;
\* message is z.string().min(1)
sendMessageRequestSchema(body) ==
  IF Len(body.message) < 1
  THEN << [path |-> "message", code |-> "too_small",
           message |-> "String must contain at least 1 character(s)"] >>
  ELSE <<>>

ZodError(issues) == [name |-> "ZodError", issues |-> issues]

ApiError(text, code, status) ==
  [name |-> "ApiError", message |-> text, code |-> code, status |-> status]

badRequest(text) == ApiError(text, "BAD_REQUEST", 400)

notFound(text) == ApiError(text, "NOT_FOUND", 404)

\* the catch block of the errorHandler middleware
errorHandler(err) ==
  IF err.name = "ZodError"
  THEN [status |-> 400,
        body |-> [success |-> FALSE,
                  error |-> [message |-> "Validation error", code |-> "VALIDATION_ERROR",
                             status |-> 400,
                             details |-> [i \in 1..Len(err.issues) |->
                                            [path |-> err.issues[i].path,
                                             message |-> err.issues[i].message]]]]]
  ELSE IF err.name = "ApiError"
  THEN [status |-> err.status,
        body |-> [success |-> FALSE,
                  error |-> [message |-> err.message, code |-> err.code,
                             status |-> err.status]]]
  ELSE [status |-> 500,
        body |-> [success |-> FALSE,
                  error |-> [message |-> "An unexpected error occurred",
                             code |-> "INTERNAL_ERROR", status |-> 500]]]

\* the application registers no onError, so the framework's own handler
\* answers an error that is not an HTTPException
onError(err) == [status |-> 500, body |-> "Internal Server Error"]

\* what 'await next()' throws into errorHandler's try block when the route
\* handler below it throws: nothing, the framework's dispatch catches the
\* handler's exception where it is thrown and hands it to onError
ThrownByNext(err) == None

\* the response to a request whose route handler throws err
HandlerThrows(err) ==
  IF ThrownByNext(err) # None THEN errorHandler(ThrownByNext(err).val) ELSE onError(err)

\* zValidator('json', sendMessageRequestSchema) on the sync route: its
\* answer to a body with issues
zValidator(issues) ==
  [status |-> 400, body |-> [success |-> FALSE, error |-> ZodError(issues)]]

\* the request body reaches its route: the sync route validates it in
\* zValidator, and both controllers parse it before they call ChatService
Validate(r) ==
  /\ pc[r] = "validate"
  /\ LET issues == sendMessageRequestSchema(input[r])
     IN IF issues = <<>>
        THEN /\ pc' = [pc EXCEPT ![r] = "start"]
             /\ UNCHANGED <<result, raised>>
        ELSE /\ pc' = [pc EXCEPT ![r] = "finished"]
             /\ IF Streaming(r)
                THEN /\ result' = [result EXCEPT ![r] = HandlerThrows(ZodError(issues))]
                     /\ raised' = [raised EXCEPT ![r] = @ \cup {"sendMessage"}]
                ELSE /\ result' = [result EXCEPT ![r] = zValidator(issues)]
                     /\ UNCHANGED raised
  /\ UNCHANGED <<conversation, message, input, llm, svc, rtr, agt,
                 respOut, routerOut, svcOut, sse, writes>>
  /\ UNCHANGED <<abort, db, executed, served, limiter, reader>>

Bodies == {<<>>, UserMessage}

\* one request with any body, on a new or an existing conversation
InitHttp ==
  /\ \E c \in {0, 1}, mode \in Modes, text \in Bodies, b \in RouterBehaviours :
       /\ conversation = << PriorConversation(2) >>
       /\ message = PriorMessages(1, 2, 0)
       /\ input = [r \in Reqs |-> IF r = 1 THEN [ChatInput(mode, c) EXCEPT !.message = text]
                                   ELSE IdleInput]
       /\ llm = [r \in Reqs |-> IF r = 1 THEN b ELSE IdleBehaviour]
  /\ pc = [r \in Reqs |-> IF r = 1 THEN "validate" ELSE "idle"]
  /\ InitLocals

NextHttp ==
  \E r \in Reqs :
    \/ Validate(r)
    \/ Begin(r)
    \/ SaveUserMessage(r)
    \/ GetHistory(r)
    \/ Analyzing(r)
    \/ Route(r)
    \/ Connect(r)
    \/ AgentPart(r)
    \/ AgentDone(r)
    \/ SyncRoute(r)
    \/ SyncGenerate(r)
    \/ StreamSaveAssistant(r)
    \/ ChatSaveAssistant(r)
    \/ GenerateTitle(r)
    \/ FinalDone(r)
    \/ Return(r)

SpecHttp == InitHttp /\ [][NextHttp]_vars

\* ------------------------------------------------ a caller that goes away
\* the caller closes the connection while sendMessage's streamSSE callback is
\* running. sendMessage registers no onAbort handler and passes no abort
\* signal on, so nothing in the request learns of it; abort keeps what the
\* request had done by then
Disconnect(r) ==
  /\ Streaming(r)
  /\ pc[r] \notin {"idle", "validate", "finished"}
  /\ abort[r] = None
  /\ abort' = [abort EXCEPT ![r] = Some([at |-> pc[r], calls |-> rtr[r].calls,
                                         steps |-> agt[r].steps, writes |-> writes[r]])]
  /\ UNCHANGED <<conversation, message, input, llm, pc, svc, rtr, agt,
                 respOut, routerOut, svcOut, sse, result, raised, writes, db, executed, served,
                 limiter, reader>>

\* one streaming request
InitAbort ==
  /\ \E c \in {0, 1}, b \in RouterBehaviours :
       /\ conversation = << PriorConversation(2) >>
       /\ message = PriorMessages(1, 2, 0)
       /\ input = [r \in Reqs |-> IF r = 1 THEN ChatInput("stream", c) ELSE IdleInput]
       /\ llm = [r \in Reqs |-> IF r = 1 THEN b ELSE IdleBehaviour]
  /\ pc = [r \in Reqs |-> IF r = 1 THEN "start" ELSE "idle"]
  /\ InitLocals

NextAbort ==
  \E r \in Reqs :
    \/ Disconnect(r)
    \/ Begin(r)
    \/ SaveUserMessage(r)
    \/ GetHistory(r)
    \/ Analyzing(r)
    \/ Route(r)
    \/ Connect(r)
    \/ AgentPart(r)
    \/ AgentDone(r)
    \/ StreamSaveAssistant(r)
    \/ GenerateTitle(r)
    \/ FinalDone(r)

SpecAbort == InitAbort /\ [][NextAbort]_vars

\* --------------------------------------------------------- the rate limiter
\* chatRateLimit: windowMs and maxRequests
WINDOW_MS == 60000

CHAT_MAX_REQUESTS == 20

\* requests a client goes on sending while it is limited
MaxRejected == 2

tooManyRequests(text) == ApiError(text, "TOO_MANY_REQUESTS", 429)

\* a limiter whose window starts again at every rejected request
rateLimit_restartsWindow(windowMs, maxRequests, entry, now) ==
  IF entry = None \/ entry.val.resetTime < now
  THEN [entry |-> Some([count |-> 1, resetTime |-> now + windowMs]), next |-> TRUE]
  ELSE LET count == entry.val.count + 1
       IN IF count > maxRequests
          THEN [entry |-> Some([count |-> count, resetTime |-> now + windowMs]), next |-> FALSE]
          ELSE [entry |-> Some([entry.val EXCEPT !.count = count]), next |-> TRUE]

\* the middleware rateLimit returns, on the entry of the request's key: the
\* entry it leaves in rateLimitStore, and whether it goes on to next()
rateLimit(windowMs, maxRequests, entry, now) ==
  IF entry = None \/ entry.val.resetTime < now
  THEN [entry |-> Some([count |-> 1, resetTime |-> now + windowMs]), next |-> TRUE]
  ELSE LET count == entry.val.count + 1
       IN [entry |-> Some([entry.val EXCEPT !.count = count]), next |-> count <= maxRequests]

\* a request reaches chatRateLimit
ChatRateLimit ==
  \E key \in ChatKeys :
    LET entry == limiter.store[key]
        out == rateLimit(WINDOW_MS, CHAT_MAX_REQUESTS, entry, limiter.now)
        opened == entry = None \/ out.entry.val.resetTime # entry.val.resetTime
    IN /\ IF entry = None THEN TRUE
          ELSE IF entry.val.resetTime < limiter.now THEN TRUE
          ELSE entry.val.count < CHAT_MAX_REQUESTS + MaxRejected
       /\ limiter' =
            [store |-> [limiter.store EXCEPT ![key] = out.entry],
             now |-> limiter.now,
             admitted |-> [limiter.admitted EXCEPT ![key] =
                             IF opened /\ out.next THEN 1
                             ELSE IF opened THEN 0
                             ELSE IF out.next THEN @ + 1 ELSE @],
             last |-> Some([key |-> key, at |-> limiter.now, before |-> entry,
                            next |-> out.next,
                            response |->
                              IF out.next THEN None
                              ELSE Some(HandlerThrows(tooManyRequests("too quickly")))])]
       /\ UNCHANGED <<chatVars, db, executed, served, reader>>

\* the moments at which something happens: the start, the last millisecond
\* of a window opened at the start, the first one after it, and a later one
Instants == {0, WINDOW_MS, WINDOW_MS + 1, 2 * WINDOW_MS + 2}

TimePasses ==
  /\ \E t \in Instants : t > limiter.now /\ limiter' = [limiter EXCEPT !.now = t]
  /\ UNCHANGED <<chatVars, db, executed, served, reader>>

\* the setInterval callback: entries whose window is over are deleted
Cleanup ==
  /\ \E k \in ChatKeys :
       IF limiter.store[k] = None THEN FALSE ELSE limiter.store[k].val.resetTime < limiter.now
  /\ limiter' = [limiter EXCEPT !.store =
                   [k \in ChatKeys |->
                      IF limiter.store[k] # None /\ limiter.store[k].val.resetTime < limiter.now
                      THEN None ELSE limiter.store[k]]]
  /\ UNCHANGED <<chatVars, db, executed, served, reader>>

\* no chat request is running: only the limiter is looked at
InitLimiter ==
  /\ conversation = << PriorConversation(2) >>
  /\ message = PriorMessages(1, 2, 0)
  /\ input = [r \in Reqs |-> IdleInput]
  /\ llm = [r \in Reqs |-> IdleBehaviour]
  /\ pc = [r \in Reqs |-> "idle"]
  /\ InitLocals

NextLimiter ==
  \/ ChatRateLimit
  \/ TimePasses
  \/ Cleanup

SpecLimiter == InitLimiter /\ [][NextLimiter]_vars

\* ------------------------------------------- the web client's SSE reader
\* The text of the response is a sequence of pieces: a line feed is one
\* piece, and so are a field prefix, an event name and each token of a JSON
\* text. The network hands the reader any non-empty run of pieces at a time.
LF == "\n"

MaxEvents == 2

\* JSON.stringify of an event's data object, which has one property here
JSONStringify(data) ==
  LET k == CHOOSE k \in DOMAIN data : TRUE
  IN << "{", k, ":", data[k], "}" >>

\* JSON.parse: the object, or None where it throws
JSONParse(text) ==
  IF Len(text) = 5 /\ text[1] = "{" /\ text[3] = ":" /\ text[5] = "}"
     /\ text[2] \notin {"{", "}", ":"} /\ text[4] \notin {"{", "}", ":"}
  THEN Some([k \in {text[2]} |-> text[4]])
  ELSE None

\* the bytes stream.writeSSE({event, data: JSON.stringify(chunk.data)}) puts
\* on the response
SseBytes(chunk) ==
  << "event: ", chunk.type, LF, "data: " >> \o JSONStringify(chunk.data) \o << LF, LF >>

\* text.split('\n')
RECURSIVE Split(_)
Split(text) ==
  IF \A i \in 1..Len(text) : text[i] # LF THEN << text >>
  ELSE LET i == CHOOSE i \in 1..Len(text) :
                  text[i] = LF /\ \A j \in 1..(i - 1) : text[j] # LF
       IN << SubSeq(text, 1, i - 1) >> \o Split(SubSeq(text, i + 1, Len(text)))

StartsWith(line, prefix) == Len(line) >= 1 /\ line[1] = prefix

\* lines.indexOf(line), counted from 1
IndexOf(lines, line) == CHOOSE i \in 1..Len(lines) :
                          lines[i] = line /\ \A j \in 1..(i - 1) : lines[j] # line

\* lines[lines.indexOf(line) - 1] read as an event line, 'unknown' otherwise
EventTypeOf(lines, line) ==
  LET at == IndexOf(lines, line) - 1
  IN IF at >= 1 /\ StartsWith(lines[at], "event: ") THEN Tail(lines[at]) ELSE << "unknown" >>

\* the events the for loop over the lines yields, from line i on
RECURSIVE YieldFrom(_, _)
YieldFrom(lines, i) ==
  IF i > Len(lines) THEN <<>>
  ELSE LET line == lines[i]
           parsed == JSONParse(Tail(line))
       IN (IF ~StartsWith(line, "event: ") /\ StartsWith(line, "data: ") /\ parsed # None
           THEN << [type |-> EventTypeOf(lines, line), data |-> parsed.val] >>
           ELSE <<>>) \o YieldFrom(lines, i + 1)

\* the events streamChat yields that the reader is tried on
WireEvents ==
  { Ev("thinking", [message |-> m]) : m \in {"Analyzing"} }
  \cup { Ev("text_delta", [delta |-> d]) : d \in {"a", "b"} }

\* ChatController.sendMessage writes one more event of streamChat
SendEvent ==
  /\ ~reader.closed
  /\ Len(reader.sent) < MaxEvents
  /\ \E chunk \in WireEvents :
       reader' = [reader EXCEPT !.sent = Append(@, chunk), !.wire = @ \o SseBytes(chunk)]
  /\ UNCHANGED <<chatVars, db, executed, served, limiter>>

\* the callback of streamSSE returns and the response ends
EndResponse ==
  /\ ~reader.closed
  /\ reader.sent # <<>>
  /\ reader' = [reader EXCEPT !.closed = TRUE]
  /\ UNCHANGED <<chatVars, db, executed, served, limiter>>

\* one turn of the while loop of api.streamMessage: reader.read() resolves
\* with the next n pieces of the response
Read ==
  /\ ~reader.done
  /\ \E n \in 1..Len(reader.wire) :
       LET value == SubSeq(reader.wire, 1, n)
           parts == Split(reader.buffer \o value)
           lines == SubSeq(parts, 1, Len(parts) - 1)
       IN reader' = [reader EXCEPT !.wire = SubSeq(@, n + 1, Len(@)),
                                   !.buffer = parts[Len(parts)],
                                   !.yielded = @ \o YieldFrom(lines, 1)]
  /\ UNCHANGED <<chatVars, db, executed, served, limiter>>

\* reader.read() resolves with done and the generator returns
ReadDone ==
  /\ ~reader.done
  /\ reader.closed
  /\ reader.wire = <<>>
  /\ reader' = [reader EXCEPT !.done = TRUE]
  /\ UNCHANGED <<chatVars, db, executed, served, limiter>>

InitReader ==
  /\ conversation = << PriorConversation(2) >>
  /\ message = PriorMessages(1, 2, 0)
  /\ input = [r \in Reqs |-> IdleInput]
  /\ llm = [r \in Reqs |-> IdleBehaviour]
  /\ pc = [r \in Reqs |-> "idle"]
  /\ InitLocals

NextReader ==
  \/ SendEvent
  \/ EndResponse
  \/ Read
  \/ ReadDone

SpecReader == InitReader /\ [][NextReader]_vars

\* ------------------------------------------------- the agents endpoints
AgentDescription(t) ==
  CASE t = "support" -> "Handles general support inquiries, FAQs, and troubleshooting"
    [] t = "order" -> "Handles order status, tracking, modifications, and cancellations"
    [] t = "billing" -> "Handles payment issues, refunds, invoices, and subscription queries"

\* config.tools of each responder, in the order of the object's keys
ToolsOf(t) ==
  CASE t = "support" -> <<"searchFAQs", "getConversationHistory", "getUserInfo">>
    [] t = "order" -> <<"getOrderByNumber", "getUserOrders", "checkDeliveryStatus",
                        "cancelOrder", "modifyOrder">>
    [] t = "billing" -> <<"getInvoiceDetails", "getUserPayments", "checkRefundStatus",
                          "requestRefund", "getSubscription", "cancelSubscription">>

\* the description of a tool, by its opening words
ToolDescription(name) ==
  CASE name = "searchFAQs" -> "Search the FAQ database"
    [] name = "getConversationHistory" -> "Retrieve the conversation history"
    [] name = "getUserInfo" -> "Get basic user information"
    [] name = "getOrderByNumber" -> "Fetch detailed information about a specific order"
    [] name = "getUserOrders" -> "Get all orders for a specific user"
    [] name = "checkDeliveryStatus" -> "Check the delivery status"
    [] name = "cancelOrder" -> "Cancel an order if it has not been shipped yet"
    [] name = "modifyOrder" -> "Check if an order can be modified"
    [] name = "getInvoiceDetails" -> "Retrieve detailed information about a specific invoice"
    [] name = "getUserPayments" -> "Get all payments and invoices for a specific user"
    [] name = "checkRefundStatus" -> "Check the refund status"
    [] name = "requestRefund" -> "Initiate a refund request for a completed payment"
    [] name = "getSubscription" -> "Get subscription details for a user"
    [] name = "cancelSubscription" -> "Cancel an active subscription"

\* BaseAgent.capabilities: `${name}: ${description}` for every tool
capabilities(t) ==
  [i \in 1..Len(ToolsOf(t)) |-> <<ToolsOf(t)[i], ": ", ToolDescription(ToolsOf(t)[i])>>]

toolsList(t) ==
  [i \in 1..Len(ToolsOf(t)) |->
     [name |-> ToolsOf(t)[i], description |-> ToolDescription(ToolsOf(t)[i])]]

getAllAgents == <<"support", "order", "billing">>

\* ChatService.getAgents
getAgents ==
  [i \in 1..Len(getAllAgents) |->
     [type |-> getAllAgents[i], name |-> AgentName(getAllAgents[i]),
      description |-> AgentDescription(getAllAgents[i])]]

\* ChatService.getAgentCapabilities: null for a type getAgent does not know
getAgentCapabilities(type) ==
  LET agent == getAgent(type)
  IN IF agent = None THEN None
     ELSE Some([type |-> agent.val, name |-> AgentName(agent.val),
                description |-> AgentDescription(agent.val),
                capabilities |-> capabilities(agent.val), tools |-> toolsList(agent.val)])

validTypes == <<"support", "order", "billing">>

\* GET /api/agents
ListAgents ==
  /\ served' = [served EXCEPT !.agents = @ \cup
                  {[status |-> 200,
                    body |-> [success |-> TRUE,
                              data |-> [agents |-> getAgents, total |-> Len(getAgents)]]]}]
  /\ UNCHANGED <<chatVars, db, executed, limiter, reader>>

\* GET /api/agents/:type/capabilities
GetAgentCapabilities ==
  \E type \in RequestedTypes :
    LET found == getAgentCapabilities(type)
        response ==
          IF \A i \in 1..Len(validTypes) : validTypes[i] # type
          THEN HandlerThrows(badRequest("Invalid agent type"))
          ELSE IF found = None THEN HandlerThrows(notFound("Agent not found"))
          ELSE [status |-> 200, body |-> [success |-> TRUE, data |-> found.val]]
    IN /\ served' = [served EXCEPT !.capabilities[type] = @ \cup {response}]
       /\ UNCHANGED <<chatVars, db, executed, limiter, reader>>

\* a chat request and, at any moment of it, requests about the agents
InitAgents ==
  /\ \E c \in {0, 1}, mode \in Modes, b \in RouterBehaviours :
       /\ conversation = << PriorConversation(2) >>
       /\ message = PriorMessages(1, 2, 0)
       /\ input = [r \in Reqs |-> IF r = 1 THEN ChatInput(mode, c) ELSE IdleInput]
       /\ llm = [r \in Reqs |-> IF r = 1 THEN b ELSE IdleBehaviour]
  /\ pc = [r \in Reqs |-> IF r = 1 THEN "start" ELSE "idle"]
  /\ InitLocals

NextAgents ==
  \/ Next
  \/ ListAgents
  \/ GetAgentCapabilities

SpecAgents == InitAgents /\ [][NextAgents]_vars

\* ------------------------------------------------------------ the tools
\* rows of the tables the tools read. Amounts are in cents; a nullable
\* column is None or Some(value)
OrderStatuses == {"pending", "processing", "shipped", "delivered", "cancelled"}

PaymentStatuses == {"pending", "completed", "failed", "refunded", "partially_refunded"}

Threw(what) == [threw |-> what]

\* findUnique / findFirst: the row, or null
FindRow(rows) == IF rows = {} THEN None ELSE Some(CHOOSE row \in rows : TRUE)

FindOrder(d, orderNumber) == FindRow({ o \in d.order : o.orderNumber = orderNumber })

FindPayment(d, invoiceNumber) == FindRow({ p \in d.payment : p.invoiceNumber = invoiceNumber })

FindUser(d, userId) == FindRow({ u \in d.user : u.id = userId })

\* orderBy: {createdAt: 'desc'}, take: limit
Newest(rows, limit) ==
  { o \in rows : Cardinality({ q \in rows : q.createdAt > o.createdAt }) < limit }

\* x || fallback, for a nullable column
OrElse(x, fallback) == IF x = None THEN fallback ELSE x.val

\* order.payments[0]?.status || 'unknown'
PaymentStatusOf(d, order) ==
  LET ps == { q \in d.payment : q.orderNumber = Some(order.orderNumber) }
  IN IF ps = {} THEN "unknown"
     ELSE (CHOOSE q \in ps : \A q2 \in ps : q.createdAt <= q2.createdAt).status

getOrderByNumber(d, a) ==
  LET order == FindOrder(d, a.orderNumber)
  IN IF order = None THEN [found |-> FALSE, message |-> "No order found with number"]
     ELSE LET user == FindUser(d, order.val.userId)
          IN IF user = None THEN Threw("TypeError")
             ELSE [found |-> TRUE,
                   order |-> [orderNumber |-> order.val.orderNumber, status |-> order.val.status,
                              total |-> order.val.total,
                              trackingNumber |-> order.val.trackingNumber,
                              paymentStatus |-> PaymentStatusOf(d, order.val),
                              customerName |-> user.val.name]]

getUserOrders(d, a) ==
  LET matching == { o \in d.order : o.userId = a.userId /\ (a.status # None => o.status = a.status.val) }
      orders == Newest(matching, a.limit)
  IN IF orders = {} THEN [found |-> FALSE, message |-> "No orders found for this user"]
     ELSE [found |-> TRUE, count |-> Cardinality(orders),
           orders |-> { [orderNumber |-> o.orderNumber, status |-> o.status, total |-> o.total,
                         trackingNumber |-> o.trackingNumber,
                         paymentStatus |-> PaymentStatusOf(d, o)] : o \in orders }]

\* a checkDeliveryStatus that reads the order's columns without the test for null
checkDeliveryStatus_assumesOrder(d, a) ==
  LET order == FindOrder(d, a.orderNumber)
  IN IF order = None THEN Threw("TypeError")
     ELSE [found |-> TRUE,
           delivery |-> [orderNumber |-> order.val.orderNumber,
                         currentStatus |-> order.val.status,
                         trackingNumber |-> order.val.trackingNumber,
                         carrier |-> IF order.val.trackingNumber # None THEN Some("UPS") ELSE None]]

checkDeliveryStatus(d, a) ==
  LET order == FindOrder(d, a.orderNumber)
  IN IF order = None THEN [found |-> FALSE, message |-> "No order found with number"]
     ELSE [found |-> TRUE,
           delivery |-> [orderNumber |-> order.val.orderNumber,
                         currentStatus |-> order.val.status,
                         trackingNumber |-> order.val.trackingNumber,
                         carrier |-> IF order.val.trackingNumber # None THEN Some("UPS") ELSE None]]

\* a cancelOrder that refuses delivered and cancelled orders only
cancelOrder_allowsShipped(d, a) ==
  LET order == FindOrder(d, a.orderNumber)
  IN IF order = None THEN [success |-> FALSE, message |-> "No order found with number"]
     ELSE IF order.val.status = "delivered"
     THEN [success |-> FALSE, message |-> "Cannot cancel order", currentStatus |-> order.val.status]
     ELSE IF order.val.status = "cancelled"
     THEN [success |-> FALSE, message |-> "already been cancelled",
           currentStatus |-> order.val.status]
     ELSE [success |-> TRUE, message |-> "has been successfully cancelled",
           orderNumber |-> order.val.orderNumber, previousStatus |-> order.val.status,
           refundAmount |-> order.val.total,
           cancellationReason |-> OrElse(a.reason, "Customer requested cancellation")]

cancelOrder(d, a) ==
  LET order == FindOrder(d, a.orderNumber)
  IN IF order = None THEN [success |-> FALSE, message |-> "No order found with number"]
     ELSE IF order.val.status = "shipped" \/ order.val.status = "delivered"
     THEN [success |-> FALSE, message |-> "Cannot cancel order", currentStatus |-> order.val.status]
     ELSE IF order.val.status = "cancelled"
     THEN [success |-> FALSE, message |-> "already been cancelled",
           currentStatus |-> order.val.status]
     ELSE [success |-> TRUE, message |-> "has been successfully cancelled",
           orderNumber |-> order.val.orderNumber, previousStatus |-> order.val.status,
           refundAmount |-> order.val.total,
           cancellationReason |-> OrElse(a.reason, "Customer requested cancellation")]

modifyOrder(d, a) ==
  LET order == FindOrder(d, a.orderNumber)
  IN IF order = None THEN [canModify |-> FALSE, message |-> "No order found with number"]
     ELSE LET canModify == order.val.status = "pending" \/ order.val.status = "processing"
          IN [canModify |-> canModify, orderNumber |-> order.val.orderNumber,
              currentStatus |-> order.val.status,
              availableActions |->
                IF canModify THEN <<"change_address", "modify_items", "cancel_order">>
                ELSE IF order.val.status = "shipped" THEN <<"track_delivery", "initiate_return">>
                ELSE IF order.val.status = "delivered" THEN <<"initiate_return", "leave_review">>
                ELSE <<>>]

getInvoiceDetails(d, a) ==
  LET payment == FindPayment(d, a.invoiceNumber)
  IN IF payment = None THEN [found |-> FALSE, message |-> "No invoice found with number"]
     ELSE LET user == FindUser(d, payment.val.userId)
          IN IF user = None THEN Threw("TypeError")
             ELSE [found |-> TRUE,
                   invoice |-> [invoiceNumber |-> payment.val.invoiceNumber,
                                amount |-> payment.val.amount, status |-> payment.val.status,
                                paymentMethod |-> payment.val.method,
                                refundAmount |-> payment.val.refundAmount,
                                customerName |-> user.val.name,
                                relatedOrder |-> payment.val.orderNumber]]

\* payment.refundAmount || 0: null and 0 both give 0
RefundedSoFar(payment) == OrElse(payment.refundAmount, 0)

\* reduce((sum, p) => sum + p.amount, 0)
RECURSIVE SumAmounts(_)
SumAmounts(rows) ==
  IF rows = {} THEN 0
  ELSE LET row == CHOOSE x \in rows : TRUE IN row.amount + SumAmounts(rows \ {row})

\* reduce((sum, p) => sum + (p.refundAmount || 0), 0)
RECURSIVE SumRefunds(_)
SumRefunds(rows) ==
  IF rows = {} THEN 0
  ELSE LET row == CHOOSE x \in rows : TRUE IN RefundedSoFar(row) + SumRefunds(rows \ {row})

getUserPayments(d, a) ==
  LET matching == { q \in d.payment :
                      q.userId = a.userId /\ (a.status # None => q.status = a.status.val) }
      payments == Newest(matching, a.limit)
  IN IF payments = {} THEN [found |-> FALSE, message |-> "No payments found for this user"]
     ELSE [found |-> TRUE, count |-> Cardinality(payments),
           summary |->
             [totalSpent |-> SumAmounts({ q \in payments : q.status = "completed" }),
              totalRefunded |-> SumRefunds(payments),
              pendingPayments |-> Cardinality({ q \in payments : q.status = "pending" })],
           payments |-> { [invoiceNumber |-> q.invoiceNumber, amount |-> q.amount,
                           status |-> q.status, method |-> q.method,
                           relatedOrder |-> q.orderNumber,
                           refundAmount |-> q.refundAmount] : q \in payments }]

checkRefundStatus(d, a) ==
  LET payment == FindPayment(d, a.invoiceNumber)
  IN IF payment = None THEN [found |-> FALSE, message |-> "No invoice found with number"]
     ELSE LET hasRefund == payment.val.status = "refunded"
                           \/ payment.val.status = "partially_refunded"
          IN [found |-> TRUE,
              refundStatus |->
                [invoiceNumber |-> payment.val.invoiceNumber,
                 originalAmount |-> payment.val.amount,
                 paymentStatus |-> payment.val.status,
                 hasRefund |-> hasRefund,
                 refundAmount |-> payment.val.refundAmount,
                 remainingBalance |-> IF hasRefund
                                      THEN Some(payment.val.amount - RefundedSoFar(payment.val))
                                      ELSE None,
                 refundEligible |-> payment.val.status = "completed"]]

\* amount || payment.amount: no amount and amount 0 both ask for all of it
RefundAmount(a, payment) ==
  IF a.amount = None \/ a.amount.val = 0 THEN payment.amount ELSE a.amount.val

\* a requestRefund without the comparison with the payment's amount
requestRefund_noLimit(d, a) ==
  LET payment == FindPayment(d, a.invoiceNumber)
  IN IF payment = None THEN [success |-> FALSE, message |-> "No invoice found with number"]
     ELSE IF payment.val.status # "completed"
     THEN [success |-> FALSE, message |-> "Cannot refund invoice",
           currentStatus |-> payment.val.status]
     ELSE LET refundAmount == RefundAmount(a, payment.val)
          IN [success |-> TRUE,
              refundRequest |-> [invoiceNumber |-> payment.val.invoiceNumber,
                                 originalAmount |-> payment.val.amount,
                                 refundAmount |-> refundAmount,
                                 isPartialRefund |-> refundAmount < payment.val.amount,
                                 reason |-> a.reason]]

requestRefund(d, a) ==
  LET payment == FindPayment(d, a.invoiceNumber)
  IN IF payment = None THEN [success |-> FALSE, message |-> "No invoice found with number"]
     ELSE IF payment.val.status # "completed"
     THEN [success |-> FALSE, message |-> "Cannot refund invoice",
           currentStatus |-> payment.val.status]
     ELSE LET refundAmount == RefundAmount(a, payment.val)
          IN IF refundAmount > payment.val.amount
             THEN [success |-> FALSE,
                   message |-> "Refund amount cannot exceed the original payment amount"]
             ELSE [success |-> TRUE,
                   refundRequest |-> [invoiceNumber |-> payment.val.invoiceNumber,
                                      originalAmount |-> payment.val.amount,
                                      refundAmount |-> refundAmount,
                                      isPartialRefund |-> refundAmount < payment.val.amount,
                                      reason |-> a.reason]]

getSubscription(d, a) ==
  LET subscriptions == { x \in d.subscription : x.userId = a.userId }
      active == { x \in subscriptions : x.status = "active" }
      newestActive == FindRow({ x \in active : \A y \in active : y.createdAt <= x.createdAt })
  IN IF subscriptions = {} THEN [found |-> FALSE, message |-> "No subscriptions found for this user"]
     ELSE [found |-> TRUE,
           hasActiveSubscription |-> active # {},
           subscriptions |-> { [plan |-> x.plan, status |-> x.status,
                                cancelAtPeriodEnd |-> x.cancelAtPeriodEnd] : x \in subscriptions },
           activeSubscription |->
             IF newestActive = None THEN None
             ELSE Some([plan |-> newestActive.val.plan, status |-> newestActive.val.status,
                        cancelAtPeriodEnd |-> newestActive.val.cancelAtPeriodEnd])]

cancelSubscription(d, a) ==
  LET subscription == FindRow({ x \in d.subscription : x.userId = a.userId /\ x.status = "active" })
  IN IF subscription = None
     THEN [success |-> FALSE, message |-> "No active subscription found for this user."]
     ELSE IF subscription.val.cancelAtPeriodEnd
     THEN [success |-> FALSE, message |-> "already scheduled for cancellation"]
     ELSE [success |-> TRUE,
           cancellation |-> [plan |-> subscription.val.plan, canReactivate |-> TRUE,
                             reason |-> OrElse(a.reason, "Customer requested cancellation")]]

\* FAQ texts are sets of lower-case words and a query is one word: the
\* question or the answer contains it, or it is one of the keywords
searchFAQs(d, a) ==
  LET faqs == { f \in d.faq :
                  /\ a.category # None => f.category = a.category.val
                  /\ a.query \in f.question \cup f.answer \cup f.keywords }
  IN IF faqs = {} THEN [found |-> FALSE, message |-> "No FAQs found matching the query"]
     ELSE [found |-> TRUE, count |-> Cardinality(faqs),
           faqs |-> { [question |-> f.question, answer |-> f.answer,
                       category |-> f.category] : f \in faqs }]

\* msg.content.substring(0, 200) + (msg.content.length > 200 ? '...' : '')
Excerpt(content) ==
  IF Len(content) > 200 THEN SubSeq(content, 1, 200) \o Ellipsis ELSE content

getConversationHistory(convs, msgs, a) ==
  LET mine == { c \in DOMAIN convs : convs[c].userId = a.userId }
      taken == { c \in mine : Cardinality({ c2 \in mine : c2 > c }) < a.limit }
  IN IF taken = {} THEN [found |-> FALSE,
                         message |-> "No previous conversations found for this user"]
     ELSE [found |-> TRUE, count |-> Cardinality(taken),
           conversations |->
             { [id |-> c, title |-> convs[c].title,
                recentMessages |->
                  LET all == MessagesOf(msgs, c)
                      recent == SubSeq(all, Len(all) - Min(Len(all), 10) + 1, Len(all))
                  IN [i \in 1..Len(recent) |->
                        [role |-> recent[i].role, content |-> Excerpt(recent[i].content),
                         agentType |-> recent[i].agentType]]] : c \in taken }]

getUserInfo(d, convs, a) ==
  LET user == FindUser(d, a.userId)
  IN IF user = None THEN [found |-> FALSE, message |-> "User not found"]
     ELSE [found |-> TRUE,
           user |-> [name |-> OrElse(user.val.name, "Valued Customer"),
                     email |-> user.val.email,
                     totalOrders |-> Cardinality({ o \in d.order : o.userId = a.userId }),
                     previousConversations |->
                       Cardinality({ c \in DOMAIN convs : convs[c].userId = a.userId })]]

\* what the execute handlers of the three side-effecting tools write: their
\* code holds reads (findUnique, findFirst) and no create, update or delete
cancelOrderWrites_updatesStatus(d, a) ==
  IF cancelOrder(d, a).success
  THEN [d EXCEPT !.order = { IF o.orderNumber = a.orderNumber
                             THEN [o EXCEPT !.status = "cancelled"] ELSE o : o \in d.order }]
  ELSE d

cancelOrderWrites(d, a) == d

requestRefundWrites(d, a) == d

cancelSubscriptionWrites(d, a) == d

\* ---- the tables
UserRows ==
  { [id |-> "u1", name |-> Some("Ann"), email |-> "ann@example.com"],
    [id |-> "u2", name |-> None, email |-> "bob@example.com"] }

\* the users of the table and one nobody has
UserIds == {"u1", "u2", "u0"}

StatusOfOrder ==
  ("ORD-1" :> "pending") @@ ("ORD-2" :> "processing") @@ ("ORD-3" :> "shipped")
  @@ ("ORD-4" :> "delivered") @@ ("ORD-5" :> "cancelled")

CreatedAtOfOrder ==
  ("ORD-1" :> 1) @@ ("ORD-2" :> 2) @@ ("ORD-3" :> 3) @@ ("ORD-4" :> 4) @@ ("ORD-5" :> 5)

\* one order in every status
OrderRows ==
  { [orderNumber |-> n, status |-> StatusOfOrder[n], total |-> 5000,
     userId |-> IF StatusOfOrder[n] \in {"pending", "shipped", "cancelled"} THEN "u1" ELSE "u2",
     trackingNumber |-> IF StatusOfOrder[n] \in {"shipped", "delivered"}
                        THEN Some("TRK") ELSE None,
     createdAt |-> CreatedAtOfOrder[n]] : n \in DOMAIN StatusOfOrder }

\* the numbers of the table and one no order has
OrderNumbers == DOMAIN StatusOfOrder \cup {"ORD-0"}

\* a payment in any status, with any refund recorded on it
PaymentRows ==
  [invoiceNumber : {"INV-1"}, userId : {"u1"}, orderNumber : {None, Some("ORD-4")},
   amount : {5000}, status : PaymentStatuses, method : {"credit_card"},
   refundAmount : {None, Some(0), Some(2500), Some(5000)}, createdAt : {1}]

InvoiceNumbers == {"INV-1", "INV-0"}

SubscriptionRows ==
  [userId : {"u1"}, plan : {"pro"}, status : {"active", "cancelled"},
   cancelAtPeriodEnd : BOOLEAN, createdAt : {1}]

FaqRows ==
  { [question |-> {"how", "refund"}, answer |-> {"within", "days"}, keywords |-> {"money"},
     category |-> "billing"],
    [question |-> {"where", "order"}, answer |-> {"track", "it"}, keywords |-> {"delivery"},
     category |-> "orders"] }

Records ==
  { [order |-> OrderRows, payment |-> ps, subscription |-> ss, user |-> UserRows,
     faq |-> FaqRows] :
      ps \in {{}} \cup { {q} : q \in PaymentRows },
      ss \in {{}} \cup { {x} : x \in SubscriptionRows } }

\* ---- one execution of a tool, with the arguments the capability chose
Executed(tool, a, out, written) ==
  /\ executed' = << [tool |-> tool, args |-> a, out |-> out] >>
  /\ db' = written
  /\ UNCHANGED <<chatVars, served, limiter, reader>>

Limits == {1, 10}

Reasons == {None, Some("changed my mind")}

SearchFAQs ==
  \E a \in [query : {"refund", "delivery", "warranty"}, category : {None, Some("billing")}] :
    Executed("searchFAQs", a, searchFAQs(db, a), db)

GetConversationHistory ==
  \E a \in [userId : UserIds, limit : Limits] :
    Executed("getConversationHistory", a, getConversationHistory(conversation, message, a), db)

GetUserInfo ==
  \E a \in [userId : UserIds] : Executed("getUserInfo", a, getUserInfo(db, conversation, a), db)

GetOrderByNumber ==
  \E a \in [orderNumber : OrderNumbers] :
    Executed("getOrderByNumber", a, getOrderByNumber(db, a), db)

GetUserOrders ==
  \E a \in [userId : UserIds, status : {None, Some("shipped")}, limit : Limits] :
    Executed("getUserOrders", a, getUserOrders(db, a), db)

CheckDeliveryStatus ==
  \E a \in [orderNumber : OrderNumbers] :
    Executed("checkDeliveryStatus", a, checkDeliveryStatus(db, a), db)

CancelOrder ==
  \E a \in [orderNumber : OrderNumbers, reason : Reasons] :
    Executed("cancelOrder", a, cancelOrder(db, a), cancelOrderWrites(db, a))

ModifyOrder ==
  \E a \in [orderNumber : OrderNumbers] : Executed("modifyOrder", a, modifyOrder(db, a), db)

GetInvoiceDetails ==
  \E a \in [invoiceNumber : InvoiceNumbers] :
    Executed("getInvoiceDetails", a, getInvoiceDetails(db, a), db)

GetUserPayments ==
  \E a \in [userId : UserIds, status : {None, Some("completed")}, limit : Limits] :
    Executed("getUserPayments", a, getUserPayments(db, a), db)

CheckRefundStatus ==
  \E a \in [invoiceNumber : InvoiceNumbers] :
    Executed("checkRefundStatus", a, checkRefundStatus(db, a), db)

RequestRefund ==
  \E a \in [invoiceNumber : InvoiceNumbers,
             amount : {None, Some(0), Some(-100), Some(2500), Some(5000), Some(5001)},
             reason : {"damaged"}] :
    Executed("requestRefund", a, requestRefund(db, a), requestRefundWrites(db, a))

GetSubscription ==
  \E a \in [userId : UserIds] : Executed("getSubscription", a, getSubscription(db, a), db)

CancelSubscription ==
  \E a \in [userId : UserIds, reason : Reasons] :
    Executed("cancelSubscription", a, cancelSubscription(db, a), cancelSubscriptionWrites(db, a))

\* tools called against tables that hold rows, with no chat request running
InitTools ==
  /\ conversation = << PriorConversation(2) >>
  /\ message = PriorMessages(1, 2, 0)
  /\ input = [r \in Reqs |-> IdleInput]
  /\ llm = [r \in Reqs |-> IdleBehaviour]
  /\ pc = [r \in Reqs |-> "idle"]
  /\ InitRequests
  /\ db \in Records
  /\ executed = <<>>
  /\ served = NothingServed
  /\ limiter = NoTraffic
  /\ reader = NoResponse

NextTools ==
  \/ SearchFAQs
  \/ GetConversationHistory
  \/ GetUserInfo
  \/ GetOrderByNumber
  \/ GetUserOrders
  \/ CheckDeliveryStatus
  \/ CancelOrder
  \/ ModifyOrder
  \/ GetInvoiceDetails
  \/ GetUserPayments
  \/ CheckRefundStatus
  \/ RequestRefund
  \/ GetSubscription
  \/ CancelSubscription

SpecTools == InitTools /\ [][NextTools]_vars

\* ----------------------------------------- the two modes on the same input
\* request 1 streams and request 2 is synchronous; each has its own
\* conversation with the same content, and the capability and the storage
\* behave the same way for both
PairedScenarios ==
  [prior : {0, 2}, first : {1}, second : {2}]
  \cup [prior : {2}, first : {0}, second : {0}]
  \cup [prior : {2}, first : {NO_SUCH_CONV}, second : {NO_SUCH_CONV}]

InitEq ==
  /\ \E sc \in PairedScenarios, b \in Behaviours :
       /\ conversation = << PriorConversation(sc.prior), PriorConversation(sc.prior) >>
       /\ message = PriorMessages(1, sc.prior, 0) \o PriorMessages(2, sc.prior, sc.prior)
       /\ input = [r \in Reqs |-> IF r = 1 THEN ChatInput("stream", sc.first)
                                  ELSE IF r = 2 THEN ChatInput("sync", sc.second)
                                  ELSE IdleInput]
       /\ llm = [r \in Reqs |-> IF r \in {1, 2} THEN b ELSE IdleBehaviour]
  /\ pc = [r \in Reqs |-> IF r \in {1, 2} THEN "start" ELSE "idle"]
  /\ InitLocals

SpecEq == InitEq /\ [][Next]_vars

\* ------------------------------------------------- two requests at once
\* the conversations the two requests name: the same stored one, two
\* stored ones, or none (each creates its own); the stored conversations
\* belong to u1 and hold prior messages
ConcurrentScenarios ==
  [prior : {0, 1, 2}, first : {1}, second : {1, 2}] \cup [prior : {2}, first : {0}, second : {0}]

ConcurrentBehaviours ==
  [route : {"order", "throw"},
   script : { << PlainToolStep, Step(<< <<"b">> >>, <<>>, FALSE) >>,
              << Step(<< <<"b">> >>, <<>>, FALSE) >> },
   dbFail : {"none"}]

\* x-user-id of the second request: the owner of the stored conversations
\* or somebody else
Callers == {"u1", "u2"}

InitConcurrent ==
  /\ \E sc \in ConcurrentScenarios, m1 \in Modes, m2 \in Modes, u \in Callers,
        b \in ConcurrentBehaviours :
       /\ conversation = << PriorConversation(sc.prior), PriorConversation(sc.prior) >>
       /\ message = PriorMessages(1, sc.prior, 0) \o PriorMessages(2, sc.prior, sc.prior)
       /\ input = [r \in Reqs |-> IF r = 1 THEN ChatInput(m1, sc.first)
                                  ELSE IF r = 2 THEN [ChatInput(m2, sc.second) EXCEPT !.userId = u]
                                  ELSE IdleInput]
       /\ llm = [r \in Reqs |-> IF r \in {1, 2} THEN b ELSE IdleBehaviour]
  /\ pc = [r \in Reqs |-> IF r \in {1, 2} THEN "start" ELSE "idle"]
  /\ InitLocals

SpecConcurrent == InitConcurrent /\ [][Next]_vars

\* ------------------------------------- chat requests and tools together
\* one chat request, on a stored conversation or a new one, while the tools
\* run against tables that hold rows
MessageScenarios == [prior : {0, 2}, conversationId : {0, 1}]

MessageBehaviours ==
  [route : {"order", "throw"},
   script : { << PlainToolStep, Step(<< <<"b">> >>, <<>>, FALSE) >> },
   dbFail : {"none"}]

InitMessages ==
  /\ \E sc \in MessageScenarios, mode \in Modes, b \in MessageBehaviours :
       /\ conversation = << PriorConversation(sc.prior) >>
       /\ message = PriorMessages(1, sc.prior, 0)
       /\ input = [r \in Reqs |-> IF r = 1 THEN ChatInput(mode, sc.conversationId) ELSE IdleInput]
       /\ llm = [r \in Reqs |-> IF r = 1 THEN b ELSE IdleBehaviour]
  /\ pc = [r \in Reqs |-> IF r = 1 THEN "start" ELSE "idle"]
  /\ InitRequests
  /\ db \in { d \in Records : d.payment = {} /\ d.subscription = {} }
  /\ executed = <<>>
  /\ served = NothingServed
  /\ limiter = NoTraffic
  /\ reader = NoResponse

NextMessages == Next \/ NextTools

SpecMessages == InitMessages /\ [][NextMessages]_vars

\* ------------------------------------------------------------- properties
Last(seq) == seq[Len(seq)]

Positions(seq, types) == { i \in 1..Len(seq) : seq[i].type \in types }

SsePositions(seq, types) == { i \in 1..Len(seq) : seq[i].event \in types }

AssistantWrites(r) == SelectSeq(writes[r], LAMBDA w : w.role = "assistant")

UserWrites(r) == SelectSeq(writes[r], LAMBDA w : w.role = "user")

Finished(r) == pc[r] = "finished"

StreamReqs == { r \in Reqs : pc[r] # "idle" /\ Streaming(r) }

SyncReqs == { r \in Reqs : pc[r] # "idle" /\ ~Streaming(r) }

\* the shape of the orchestrator's own terminal event
FinalDoneFields == {"conversationId", "messageId", "agentType", "fullText"}

\* C1: the events a streaming request yields and writes contain exactly one
\* terminal event (done or error), and it is the last one.
C1_OneTerminalEventLast ==
  \A r \in StreamReqs :
    /\ Cardinality(Positions(svcOut[r], TerminalTypes)) <= 1
    /\ Cardinality(SsePositions(sse[r], TerminalTypes)) <= 1
    /\ Finished(r) =>
         /\ SsePositions(sse[r], TerminalTypes) = { Len(sse[r]) }

\* C2: when processMessage ended with an error event, the user message stays
\* persisted and streamChat writes no assistant message and no title.
C2_ErrorLeavesOnlyUserMessage ==
  \A r \in StreamReqs :
    (routerOut[r] # <<>> /\ Last(routerOut[r]).type = "error") =>
       /\ Len(UserWrites(r)) = 1
       /\ \E i \in 1..Len(message) : message[i].id = UserWrites(r)[1].id
       /\ AssistantWrites(r) = <<>>
       /\ pc[r] # "title"

\* C3: every done event streamChat yields is its own replacement, carrying
\* conversationId, messageId, agentType and fullText; the router's raw done
\* {fullText, toolCalls} is never passed on.
C3_NoRawDoneRelayed ==
  \A r \in StreamReqs :
    \A i \in Positions(svcOut[r], {"done"}) :
      DOMAIN svcOut[r][i].data = FinalDoneFields

\* what a conversation holds, without row identities
ContentOf(c) ==
  LET ms == MessagesOf(message, c)
  IN [i \in 1..Len(ms) |-> [role |-> ms[i].role, content |-> ms[i].content,
                            agentType |-> ms[i].agentType, toolCalls |-> ms[i].toolCalls]]

TitleOf(c) == IF ConvExists(c) THEN conversation[c].title ELSE None

\* what a streaming request reported: its final done event, if any
StreamReport(r) ==
  LET ds == { i \in Positions(svcOut[r], {"done"}) : DOMAIN svcOut[r][i].data = FinalDoneFields }
  IN IF ds = {} THEN [ok |-> FALSE]
     ELSE LET d == svcOut[r][CHOOSE i \in ds : TRUE].data
          IN [ok |-> TRUE, own |-> d.conversationId = svc[r].conversationId,
              agentType |-> d.agentType, response |-> d.fullText]

SyncReport(r) ==
  IF result[r] = None \/ ~result[r].ok THEN [ok |-> FALSE]
  ELSE [ok |-> TRUE, own |-> result[r].conversationId = svc[r].conversationId,
        agentType |-> result[r].agentType, response |-> result[r].response]

\* C4: streaming mode and synchronous mode, on the same input and the same
\* behaviour of the capability and the storage, leave the same messages and
\* title and report the same category and text.
C4_ModesEquivalent ==
  (Finished(1) /\ Finished(2) /\ Streaming(1) /\ ~Streaming(2) /\ llm[1] = llm[2]) =>
     /\ ContentOf(svc[1].conversationId) = ContentOf(svc[2].conversationId)
     /\ TitleOf(svc[1].conversationId) = TitleOf(svc[2].conversationId)
     /\ StreamReport(1) = SyncReport(2)

HistoryLoaded(r) == pc[r] \in {"analyzing", "syncRoute"}

\* C5: whatever the conversation already holds, the history handed to the
\* router ends with the user message the request has just appended.
C5_HistoryEndsWithNewUserMessage ==
  \A r \in Reqs :
    HistoryLoaded(r) =>
       /\ Len(UserWrites(r)) = 1
       /\ svc[r].history # <<>>
       /\ Last(svc[r].history).id = UserWrites(r)[1].id

\* the responder loop of the request is over: processMessage has yielded
\* its last event and nothing is left of fullStream, or generateText has
\* returned
ResponderTerminated(r) ==
  IF Streaming(r)
  THEN /\ routerOut[r] # <<>>
       /\ Last(routerOut[r]).type \in TerminalTypes
       /\ agt[r].stream = <<>>
  ELSE rtr[r].response # None

\* C6: a request appends at most one assistant message, and only once the
\* responder loop has terminated; no responder event is produced after it.
C6_AssistantSavedOnceAfterLoop ==
  [][\A r \in Reqs :
       /\ Len(AssistantWrites(r))' <= 1
       /\ Len(AssistantWrites(r))' > Len(AssistantWrites(r)) => ResponderTerminated(r)
       /\ Len(AssistantWrites(r)) > 0 => respOut'[r] = respOut[r] /\ routerOut'[r] = routerOut[r]
    ]_vars

C6_Witness ==
  \E r \in StreamReqs :
    /\ Len(AssistantWrites(r)) = 1
    /\ Positions(respOut[r], {"tool_result"}) # {}
    /\ Last(respOut[r]).type = "done"
    /\ Finished(r)

\* C7: classification never raises, whatever the classification call does,
\* and no classification failure reaches the caller as an error.
C7_RouteNeverRaises ==
  \A r \in Reqs :
    /\ "route" \notin raised[r]
    /\ \A i \in SsePositions(sse[r], {"error"}) :
         sse[r][i].data.message # "classification failed"
    /\ (result[r] # None /\ ~result[r].ok) => result[r].message # "classification failed"

RaisedInside(r) == raised[r] \cap {"route", "streamResponse"} # {}

\* C8: no exception leaves processMessage; an error raised inside it becomes
\* exactly one error event with a message, and that event stays the last.
C8_RouterConvertsErrors ==
  \A r \in StreamReqs :
    /\ "processMessage" \notin raised[r]
    /\ IF RaisedInside(r)
       THEN /\ Positions(routerOut[r], {"error"}) = { Len(routerOut[r]) }
            /\ "message" \in DOMAIN Last(routerOut[r]).data
       ELSE Positions(routerOut[r], {"error"}) = {}

C8_Witness ==
  \E r \in StreamReqs :
    /\ "streamResponse" \in raised[r]
    /\ Positions(routerOut[r], {"tool_call"}) # {}
    /\ Last(routerOut[r]).type = "error"
    /\ Finished(r)

\* C9: a streaming request's events hold at most one routing event, and it
\* comes before every tool_call and text_delta event.
C9_OneRoutingFirst ==
  \A r \in StreamReqs :
    /\ Cardinality(SsePositions(sse[r], {"routing"})) <= 1
    /\ Cardinality(Positions(svcOut[r], {"routing"})) <= 1
    /\ \A i \in SsePositions(sse[r], {"tool_call", "text_delta"}) :
         \E j \in SsePositions(sse[r], {"routing"}) : j < i

C9_Witness ==
  \E r \in StreamReqs :
    /\ Finished(r)
    /\ SsePositions(sse[r], {"routing"}) # {}
    /\ SsePositions(sse[r], {"tool_call"}) # {}
    /\ SsePositions(sse[r], {"text_delta"}) # {}

\* C10: after a successful classification processMessage yields thinking,
\* routing, thinking and then the responder's events as they are, in order;
\* streamChat and sendMessage pass every one of them on once, in order.
C10_EventsRelayedInOrder ==
  \A r \in StreamReqs :
    LET ro == routerOut[r]
        lead == IF input[r].conversationId = 0 /\ svcOut[r] # <<>> THEN 1 ELSE 0
    IN /\ Positions(ro, {"routing"}) # {} =>
            /\ Len(ro) >= 2 /\ ro[1].type = "thinking" /\ ro[2].type = "routing"
            /\ Len(ro) >= 3 => ro[3].type = "thinking"
            /\ SubSeq(ro, 4, Len(ro)) =
                 respOut[r] \o (IF "streamResponse" \in raised[r] THEN << Last(ro) >> ELSE <<>>)
       /\ Len(svcOut[r]) >= lead + Len(ro)
       /\ SubSeq(svcOut[r], lead + 1, lead + Len(ro)) = ro
       /\ Len(sse[r]) >= Len(svcOut[r])
       /\ \A i \in 1..Len(svcOut[r]) : sse[r][i] = WriteSSE(svcOut[r][i])

C10_Witness ==
  \E r \in StreamReqs :
    /\ Finished(r)
    /\ Positions(respOut[r], {"tool_call"}) # {}
    /\ Positions(respOut[r], {"tool_result"}) # {}
    /\ Positions(respOut[r], {"text_delta"}) # {}
    /\ Positions(respOut[r], {"done"}) # {}
    /\ Len(sse[r]) = Len(routerOut[r]) + 2

\* the text of the text_delta events of a sequence, in emission order
DeltaText(seq) ==
  LET ds == SelectSeq(seq, LAMBDA e : e.type = "text_delta")
  IN Concat([i \in 1..Len(ds) |-> ds[i].data.delta])

RowOf(id) == message[CHOOSE i \in 1..Len(message) : message[i].id = id]

FinalDones(r) ==
  { i \in Positions(svcOut[r], {"done"}) : DOMAIN svcOut[r][i].data = FinalDoneFields }

\* C11: in every responder run the deltas of the text_delta events, joined
\* in emission order, are the fullText of the run's done event; the final
\* done event and the persisted assistant message carry that same string.
C11_DeltasMakeFullText ==
  \A r \in StreamReqs :
    /\ agt[r].fullText = DeltaText(respOut[r])
    /\ \A i \in Positions(respOut[r], {"done"}) :
         /\ respOut[r][i].data.fullText = DeltaText(respOut[r])
         /\ \A k \in 1..Len(AssistantWrites(r)) :
              RowOf(AssistantWrites(r)[k].id).content = DeltaText(respOut[r])
         /\ \A j \in FinalDones(r) : svcOut[r][j].data.fullText = DeltaText(respOut[r])

C11_Witness ==
  \E r \in StreamReqs :
    /\ Finished(r)
    /\ FinalDones(r) # {}
    /\ Cardinality(Positions(respOut[r], {"text_delta"})) >= 3
    /\ Positions(respOut[r], {"tool_result"}) # {}
    /\ Len(RowOf(AssistantWrites(r)[1].id).content) >= 4

\* C12: every tool_result event of a responder run comes after a tool_call
\* event of the same run for the same tool name.
C12_ToolResultAfterItsCall ==
  \A r \in StreamReqs :
    \A i \in Positions(respOut[r], {"tool_result"}) :
      \E j \in 1..(i - 1) :
        /\ respOut[r][j].type = "tool_call"
        /\ respOut[r][j].data.tool = respOut[r][i].data.tool

C12_Witness ==
  \E r \in StreamReqs :
    \E i, j \in Positions(respOut[r], {"tool_result"}) :
      /\ respOut[r][i].data.tool = "getOrder"
      /\ respOut[r][j].data.tool = "listOrders"

\* the responder of a streaming request was started and its loop ended
\* without an exception
RunCompleted(r) ==
  /\ rtr[r].routing # None
  /\ pc[r] \notin {"connect", "responding"}
  /\ "streamResponse" \notin raised[r]

\* the request is inside streamResponse or generateResponse of a responder
InResponder(r) == pc[r] \in {"responding", "syncGenerate"}

\* C13: every responder run terminates; it makes at most MAX_STEPS
\* responder/tool round-trips, also against a capability that requests a tool
\* on every step, and a run that ends without an exception has emitted exactly
\* one done event, its last, carrying the accumulated text and invocations.
C13_RunTerminatesWithinBound ==
  /\ [](\A r \in StreamReqs :
          /\ agt[r].steps <= MAX_STEPS
          /\ Cardinality(Positions(respOut[r], {"done"})) <= 1
          /\ RunCompleted(r) =>
               /\ Positions(respOut[r], {"done"}) = {Len(respOut[r])}
               /\ Last(respOut[r]).data.fullText = DeltaText(respOut[r])
               /\ Last(respOut[r]).data.toolCalls = RecordsUpTo(llm[r].script, agt[r].steps))
  /\ [](\A r \in SyncReqs :
          rtr[r].response # None =>
            \E n \in 1..MAX_STEPS :
              rtr[r].response.val.toolCalls \in {None, Some(RecordsUpTo(llm[r].script, n))})
  /\ \A r \in Reqs : InResponder(r) ~> ~InResponder(r)

C13_Witness ==
  \E r \in StreamReqs :
    /\ RunCompleted(r)
    /\ Len(llm[r].script) > MAX_STEPS
    /\ agt[r].steps = MAX_STEPS
    /\ Last(respOut[r]).type = "done"
    /\ Len(Last(respOut[r]).data.toolCalls) >= MAX_STEPS

\* what a caller that drains streamResponse keeps of its done event
DrainedDone(d) ==
  [content |-> d.data.fullText,
   toolCalls |-> IF Len(d.data.toolCalls) > 0 THEN Some(d.data.toolCalls) ELSE None]

\* C14: for the same behaviour of the capability, generateResponse returns
\* the content and the tool invocations of the done event of a drained
\* streamResponse.
C14_GenerateEqualsDrainedStream ==
  \A r \in StreamReqs :
    \A i \in Positions(respOut[r], {"done"}) :
      DrainedDone(respOut[r][i]) = AgentGenerateResponse(llm[r].script)

\* C15: the category selected by routing is one of support, order and
\* billing, never 'router', in every routing event, in the agentType of every
\* assistant message a request persists and in the agentType of every final
\* result, whatever decision the capability returns.
C15_SelectedCategoryIsAResponder ==
  \A r \in Reqs :
    /\ rtr[r].agent \in AgentTypes
    /\ \A i \in Positions(routerOut[r], {"routing"}) : routerOut[r][i].data.agent \in AgentTypes
    /\ \A i \in Positions(svcOut[r], {"routing"}) : svcOut[r][i].data.agent \in AgentTypes
    /\ \A k \in 1..Len(AssistantWrites(r)) : RowOf(AssistantWrites(r)[k].id).agentType \in AgentTypes
    /\ \A j \in FinalDones(r) : svcOut[r][j].data.agentType \in AgentTypes
    /\ (result[r] # None /\ result[r].ok) => result[r].agentType \in AgentTypes

C15_Witness ==
  \E r \in StreamReqs :
    /\ llm[r].route = "router"
    /\ rtr[r].routing # None
    /\ rtr[r].routing.val.agent = "router"
    /\ Positions(routerOut[r], {"routing"}) # {}
    /\ AssistantWrites(r) # <<>>
    /\ FinalDones(r) # {}

NoUserMessage(r) == LastUser(ToCoreMessages(svc[r].history)) = None

\* C16: classifying a history that contains no user message selects support
\* with confidence exactly 1.0 and makes no call to the capability.
C16_NoUserMessageDefaultsToSupport ==
  \A r \in Reqs :
    (NoUserMessage(r) /\ pc[r] \notin {"idle", "analyzing", "route", "syncRoute"}) =>
      /\ "route" \notin raised[r]
      /\ rtr[r].agent = "support"
      /\ rtr[r].routing =
           Some([agent |-> "support", confidence |-> CONF_NO_MESSAGE,
                 reasoning |-> "No user message found, defaulting to support"])
      /\ pc[r] \in {"connect", "syncGenerate"} => rtr[r].calls = 0
      /\ Streaming(r) =>
           /\ routerOut[r][2].type = "routing"
           /\ routerOut[r][2].data.agent = "support"
           /\ routerOut[r][2].data.confidence = CONF_NO_MESSAGE

C16_Witness ==
  \E r \in Reqs :
    /\ NoUserMessage(r)
    /\ svc[r].history # <<>>
    /\ llm[r].route \in {"order", "throw"}
    /\ pc[r] \in {"connect", "syncGenerate"}
    /\ rtr[r].calls = 0

FallbackRouting ==
  [agent |-> "support", confidence |-> CONF_FALLBACK,
   reasoning |-> "Could not determine intent, defaulting to support"]

\* the classification call was made and came back without a decision
Undecided(r) == llm[r].route = "none" /\ rtr[r].calls >= 1

\* C17: when the classification call returns no decision, the router still
\* emits a routing event naming support with confidence 0.5 and the fixed
\* rationale, and goes on to invoke the support responder instead of ending
\* with an error.
C17_UndecidedFallsBackToSupport ==
  \A r \in Reqs :
    Undecided(r) =>
      /\ "route" \notin raised[r]
      /\ rtr[r].agent = "support"
      /\ rtr[r].routing = Some(FallbackRouting)
      /\ pc[r] \notin {"connect", "syncGenerate"} => rtr[r].calls >= 2
      /\ Streaming(r) =>
           /\ routerOut[r][2] =
                Ev("routing", [agent |-> "support", agentName |-> "Support Agent",
                               reason |-> FallbackRouting.reasoning,
                               confidence |-> CONF_FALLBACK])
           /\ \A i \in 1..Min(3, Len(routerOut[r])) : routerOut[r][i].type # "error"
           /\ pc[r] # "connect" =>
                routerOut[r][3] =
                  Ev("thinking", [message |-> <<"Connecting you with", "Support Agent">>])

C17_Witness ==
  \E r \in StreamReqs :
    /\ Undecided(r)
    /\ Finished(r)
    /\ Positions(respOut[r], {"done"}) # {}
    /\ Positions(respOut[r], {"tool_result"}) # {}

\* the request appended the first assistant message of its conversation
\* and is past the point where the title is decided
CompletedFirstExchange(r) ==
  /\ pc[r] \in {"finalDone", "return", "finished"}
  /\ AssistantWrites(r) # <<>>
  /\ LET earlier == SelectSeq(MessagesOf(message, svc[r].conversationId),
                              LAMBDA m : m.role = "assistant")
     IN earlier[1].id = AssistantWrites(r)[1].id

\* C18: whenever a request appends the first assistant message of a
\* conversation, in either mode and whatever earlier requests left in the
\* conversation, the conversation has a title derived from its first user
\* message.
C18_FirstExchangeGetsTitle ==
  \A r \in Reqs :
    CompletedFirstExchange(r) =>
      /\ TitleOf(svc[r].conversationId) # None
      /\ TitleOf(svc[r].conversationId) = generateTitle(message, svc[r].conversationId)

FirstUserContent(c) ==
  LET users == SelectSeq(MessagesOf(message, c), LAMBDA m : m.role = "user")
  IN users[1].content

\* generateTitle has run for the request's conversation
TitleGenerated(r) ==
  /\ pc[r] \in {"finalDone", "return", "finished"}
  /\ AssistantWrites(r) # <<>>
  /\ Len(svc[r].history) = 1

RequestedTools(r) ==
  IF Streaming(r)
  THEN LET calls == SelectSeq(respOut[r], LAMBDA e : e.type = "tool_call")
       IN [i \in 1..Len(calls) |-> calls[i].data.tool]
  ELSE Concat([i \in 1..StepsRun(llm[r].script, 1, MAX_STEPS) |-> llm[r].script[i].calls])

\* C20: the tool list persisted with an assistant message holds exactly one
\* record {tool, args, result} per tool invocation the responder turn
\* requested, with no call-only or result-only entries, and is omitted when
\* the turn invoked no tool.
C20_OneRecordPerInvocation ==
  \A r \in Reqs :
    \A k \in 1..Len(AssistantWrites(r)) :
      LET tc == RowOf(AssistantWrites(r)[k].id).toolCalls
          requested == RequestedTools(r)
      IN IF requested = <<>> THEN tc = None
         ELSE /\ tc # None
              /\ Len(tc.val) = Len(requested)
              /\ \A i \in 1..Len(tc.val) :
                   /\ DOMAIN tc.val[i] = {"tool", "args", "result"}
                   /\ tc.val[i].tool = requested[i]

\* the thinking events that name a conversation identifier
Announcements(seq) ==
  { i \in Positions(seq, {"thinking"}) : "conversationId" \in DOMAIN seq[i].data }

\* C21: a streaming request without conversationId creates a conversation
\* and its first event is a thinking event naming the new identifier, before
\* anything is handed to the router; with a conversationId no conversation is
\* created and no such event is emitted.
C21_NewConversationAnnouncedFirst ==
  \A r \in StreamReqs :
    pc[r] # "start" =>
      IF input[r].conversationId = 0
      THEN /\ Len(conversation) = 2
           /\ svc[r].conversationId = Len(conversation)
           /\ Announcements(svcOut[r]) = {1}
           /\ svcOut[r][1] = Ev("thinking", [message |-> "Starting new conversation...",
                                             conversationId |-> svc[r].conversationId])
           /\ sse[r][1] = WriteSSE(svcOut[r][1])
           /\ pc[r] \in {"saveUser", "getHistory", "analyzing"} => routerOut[r] = <<>>
      ELSE /\ Len(conversation) = 1
           /\ Announcements(svcOut[r]) = {}

C21_Witness ==
  \E r \in StreamReqs :
    /\ input[r].conversationId = 0
    /\ Finished(r)
    /\ FinalDones(r) # {}
    /\ Len(routerOut[r]) > 3

InvalidBody(r) == pc[r] # "idle" /\ sendMessageRequestSchema(input[r]) # <<>>

\* C22: a request whose body fails validation is rejected before any
\* orchestration: on both endpoints no conversation is created, no message
\* is persisted, the capability is not called, and the client receives a 400
\* error with a machine-readable code and field-level details.
C22_InvalidBodyRejectedWith400 ==
  \A r \in Reqs :
    InvalidBody(r) =>
      /\ pc[r] \in {"validate", "finished"}
      /\ Len(conversation) = 1
      /\ writes[r] = <<>>
      /\ rtr[r].calls = 0
      /\ sse[r] = <<>>
      /\ pc[r] = "finished" =>
           /\ result[r].status = 400
           /\ \/ /\ result[r].body.error.code = "VALIDATION_ERROR"
                 /\ Len(result[r].body.error.details) > 0
              \/ /\ Len(result[r].body.error.issues) > 0
                 /\ \A i \in 1..Len(result[r].body.error.issues) :
                      {"code", "path"} \subseteq DOMAIN result[r].body.error.issues[i]

\* the caller went away while the router was producing the events of r
DisconnectedMidStream(r) ==
  /\ abort[r] # None
  /\ abort[r].val.at \in {"analyzing", "route", "connect", "responding"}

\* C23: once the caller has disconnected in the middle of a stream no
\* further capability call and no further tool round-trip is started, and the
\* request ends with its user message persisted and no assistant message.
C23_DisconnectAbandonsProduction ==
  \A r \in StreamReqs :
    DisconnectedMidStream(r) =>
      /\ rtr[r].calls = abort[r].val.calls
      /\ agt[r].steps = abort[r].val.steps
      /\ Finished(r) => (UserWrites(r) # <<>> /\ AssistantWrites(r) = <<>>)

NoDuplicates(seq) == \A i, j \in 1..Len(seq) : seq[i] = seq[j] => i = j

ElementsOf(seq) == { seq[i] : i \in 1..Len(seq) }

\* C24: the toolsUsed list chat returns holds the distinct names of the
\* tools invoked in the exchange: every invoked name, and none of them twice.
C24_ToolsUsedAreDistinctNames ==
  \A r \in SyncReqs :
    (result[r] # None /\ result[r].ok) =>
      /\ ElementsOf(result[r].toolsUsed) = ElementsOf(RequestedTools(r))
      /\ NoDuplicates(result[r].toolsUsed)

\* ---- the tools
\* the execution that has just returned
LastCall(tool) == executed # <<>> /\ executed[1].tool = tool

PaymentsNumbered(invoiceNumber) == { q \in db.payment : q.invoiceNumber = invoiceNumber }

OrdersNumbered(orderNumber) == { o \in db.order : o.orderNumber = orderNumber }

\* C25: requestRefund returns success only when the payment exists, its
\* status is completed and the refund amount does not exceed the payment's
\* amount; a requested amount above the payment's amount yields a failure
C25_RefundOnlyWithinCompletedPayment ==
  LastCall("requestRefund") =>
    LET a == executed[1].args
        out == executed[1].out
    IN /\ out.success =>
            \E q \in PaymentsNumbered(a.invoiceNumber) :
              /\ q.status = "completed"
              /\ out.refundRequest.refundAmount <= q.amount
       /\ \A q \in PaymentsNumbered(a.invoiceNumber) :
            (a.amount # None /\ a.amount.val > q.amount) => ~out.success

\* more than the payment's amount was asked back from a completed payment
C25_Witness ==
  /\ LastCall("requestRefund")
  /\ \E q \in PaymentsNumbered(executed[1].args.invoiceNumber) :
       /\ q.status = "completed"
       /\ executed[1].args.amount # None
       /\ executed[1].args.amount.val > q.amount
  /\ ~executed[1].out.success

\* C26: cancelOrder returns success only for an existing order whose status
\* is neither shipped, delivered nor cancelled; for every other status and
\* for an absent order it returns a failure
C26_CancelOnlyBeforeShipping ==
  LastCall("cancelOrder") =>
    (executed[1].out.success <=>
       \E o \in OrdersNumbered(executed[1].args.orderNumber) :
         o.status \notin {"shipped", "delivered", "cancelled"})

\* the cancellation of a shipped order was refused
C26_Witness ==
  /\ LastCall("cancelOrder")
  /\ \E o \in OrdersNumbered(executed[1].args.orderNumber) : o.status = "shipped"
  /\ ~executed[1].out.success

\* C27: checkRefundStatus reports hasRefund exactly when the payment's
\* status is refunded or partially_refunded, a remainingBalance that is not
\* null exactly in those cases, and a remainingBalance of 0 for every
\* payment whose status is refunded
C27_RefundStatusBalance ==
  LastCall("checkRefundStatus") =>
    \A q \in PaymentsNumbered(executed[1].args.invoiceNumber) :
      LET rs == executed[1].out.refundStatus
      IN /\ rs.hasRefund <=> q.status \in {"refunded", "partially_refunded"}
         /\ rs.remainingBalance # None <=> q.status \in {"refunded", "partially_refunded"}
         /\ q.status = "refunded" => rs.remainingBalance = Some(0)

\* the rows a call is about
TargetOf(call) ==
  LET a == call.args
  IN CASE call.tool \in {"getOrderByNumber", "checkDeliveryStatus", "cancelOrder", "modifyOrder"} ->
            OrdersNumbered(a.orderNumber)
       [] call.tool \in {"getInvoiceDetails", "checkRefundStatus", "requestRefund"} ->
            PaymentsNumbered(a.invoiceNumber)
       [] call.tool = "getUserInfo" -> { u \in db.user : u.id = a.userId }
       [] call.tool = "getUserOrders" ->
            { o \in db.order : o.userId = a.userId /\ (a.status # None => o.status = a.status.val) }
       [] call.tool = "getUserPayments" ->
            { q \in db.payment :
                q.userId = a.userId /\ (a.status # None => q.status = a.status.val) }
       [] call.tool = "getSubscription" -> { x \in db.subscription : x.userId = a.userId }
       [] call.tool = "cancelSubscription" ->
            { x \in db.subscription : x.userId = a.userId /\ x.status = "active" }
       [] call.tool = "searchFAQs" ->
            { f \in db.faq : /\ a.category # None => f.category = a.category.val
                             /\ a.query \in f.question \cup f.answer \cup f.keywords }
       [] call.tool = "getConversationHistory" ->
            { c \in DOMAIN conversation : conversation[c].userId = a.userId }

Raised(out) == "threw" \in DOMAIN out

NegativeResult(out) ==
  \/ "found" \in DOMAIN out /\ ~out.found
  \/ "success" \in DOMAIN out /\ ~out.success
  \/ "canModify" \in DOMAIN out /\ ~out.canModify

LookupTools ==
  {"searchFAQs", "getConversationHistory", "getUserInfo", "getOrderByNumber", "getUserOrders",
   "checkDeliveryStatus", "getInvoiceDetails", "getUserPayments", "checkRefundStatus",
   "getSubscription"}

\* the columns of the stored row that the result of a lookup by key repeats
StoredFields(call) ==
  \A row \in TargetOf(call) :
    CASE call.tool = "getOrderByNumber" ->
           /\ call.out.order.orderNumber = row.orderNumber
           /\ call.out.order.status = row.status
           /\ call.out.order.total = row.total
           /\ call.out.order.trackingNumber = row.trackingNumber
      [] call.tool = "checkDeliveryStatus" ->
           /\ call.out.delivery.orderNumber = row.orderNumber
           /\ call.out.delivery.currentStatus = row.status
           /\ call.out.delivery.trackingNumber = row.trackingNumber
      [] call.tool = "getInvoiceDetails" ->
           /\ call.out.invoice.invoiceNumber = row.invoiceNumber
           /\ call.out.invoice.amount = row.amount
           /\ call.out.invoice.status = row.status
           /\ call.out.invoice.refundAmount = row.refundAmount
      [] call.tool = "checkRefundStatus" ->
           /\ call.out.refundStatus.invoiceNumber = row.invoiceNumber
           /\ call.out.refundStatus.originalAmount = row.amount
           /\ call.out.refundStatus.paymentStatus = row.status
      [] call.tool = "getUserInfo" ->
           /\ call.out.user.email = row.email
           /\ row.name # None => call.out.user.name = row.name.val
      [] OTHER -> TRUE

\* C28: no tool raises because its target is absent: for a missing order,
\* invoice, payment, subscription, FAQ match or user the result is
\* found: false, success: false or canModify: false, and for an existing
\* target a lookup returns found: true with the stored row's columns
C28_AbsentTargetIsAResult ==
  executed # <<>> =>
    LET call == executed[1]
    IN /\ ~Raised(call.out)
       /\ TargetOf(call) = {} => NegativeResult(call.out)
       /\ (TargetOf(call) # {} /\ call.tool \in LookupTools) =>
            (call.out.found /\ StoredFields(call))

\* the delivery status of an order number that no order has was asked for
C28_Witness ==
  /\ LastCall("checkDeliveryStatus")
  /\ OrdersNumbered(executed[1].args.orderNumber) = {}
  /\ ~executed[1].out.found

\* C29: cancelOrder, requestRefund and cancelSubscription leave the stored
\* rows as they were: whatever the arguments and the outcome, every order,
\* payment and subscription is the same after the call as before it
C29_SideEffectingToolsWriteNothing ==
  [][ (executed' # <<>> /\ executed'[1].tool \in {"cancelOrder", "requestRefund", "cancelSubscription"})
        => (db'.order = db.order /\ db'.payment = db.payment
            /\ db'.subscription = db.subscription) ]_vars

\* a cancellation has reported success and the order is still processing
C29_Witness ==
  /\ LastCall("cancelOrder")
  /\ executed[1].out.success
  /\ \E o \in OrdersNumbered(executed[1].args.orderNumber) :
       o.status = executed[1].out.previousStatus

\* ---- the agents endpoints
ClientError(response) == response.status >= 400 /\ response.status < 500

\* C30: getAgentCapabilities is a pure function of the static configuration
\* of the responders: all the answers for one category are the same, whatever
\* the chat requests have done in between; getAgents lists exactly support,
\* order and billing; and a request for 'router' or any other name is
\* rejected as a client error
C30_CapabilitiesArePureAndThreeAgents ==
  /\ \A t \in RequestedTypes : Cardinality(served.capabilities[t]) <= 1
  /\ \A response \in served.agents :
       /\ response.status = 200
       /\ [i \in DOMAIN response.body.data.agents |-> response.body.data.agents[i].type]
            = <<"support", "order", "billing">>
  /\ \A t \in RequestedTypes \ AgentTypes :
       \A response \in served.capabilities[t] : ClientError(response)

\* ---- two requests at once
\* the request ran to its end and nothing failed in it
Completed(r) == Finished(r) /\ raised[r] = {}

Stored(c) == MessagesOf(message, c)

\* C31: concurrent requests are independent and lose no message: when two
\* requests on different conversations have completed, each conversation
\* ends with its own request's user message followed by its assistant
\* message; when they are on the same conversation, both user messages and
\* both assistant messages are stored, each once
C31_ConcurrentRequestsLoseNothing ==
  (Completed(1) /\ Completed(2)) =>
    IF svc[1].conversationId # svc[2].conversationId
    THEN \A r \in {1, 2} :
           LET rows == Stored(svc[r].conversationId)
           IN /\ Len(writes[r]) = 2
              /\ Len(rows) >= 2
              /\ rows[Len(rows) - 1].id = writes[r][1].id
              /\ rows[Len(rows) - 1].role = "user"
              /\ rows[Len(rows)].id = writes[r][2].id
              /\ rows[Len(rows)].role = "assistant"
    ELSE LET c == svc[1].conversationId
             news == SelectSeq(Stored(c),
                               LAMBDA m : \E r \in {1, 2} : \E i \in 1..Len(writes[r]) :
                                            writes[r][i].id = m.id)
         IN /\ Len(news) = 4
            /\ \A r \in {1, 2} :
                 /\ Len(UserWrites(r)) = 1 /\ Len(AssistantWrites(r)) = 1
                 /\ Cardinality({ i \in 1..Len(news) : news[i].id = UserWrites(r)[1].id
                                                         /\ news[i].role = "user" }) = 1
                 /\ Cardinality({ i \in 1..Len(news) : news[i].id = AssistantWrites(r)[1].id
                                                         /\ news[i].role = "assistant" }) = 1

\* both requests completed on one conversation, the second having saved its
\* user message between the two messages of the first
C31_Witness ==
  /\ Completed(1) /\ Completed(2)
  /\ svc[1].conversationId = svc[2].conversationId
  /\ writes[1][1].id < writes[2][1].id
  /\ writes[2][1].id < writes[1][2].id

\* ---- the end of a streaming request
\* the done events of the request that carry a messageId
DonesWithMessageId(r) ==
  { i \in Positions(svcOut[r], {"done"}) : "messageId" \in DOMAIN svcOut[r][i].data }

\* C32: the orchestrator's final done event is emitted only after the
\* assistant message has been persisted, and its messageId is the identity
\* of that message; when the write of the assistant message fails, no done
\* event carrying a messageId is emitted
C32_FinalDoneNamesPersistedMessage ==
  \A r \in StreamReqs :
    /\ \A i \in DonesWithMessageId(r) :
         /\ Len(AssistantWrites(r)) = 1
         /\ svcOut[r][i].data.messageId = AssistantWrites(r)[1].id
         /\ \E k \in 1..Len(message) :
              /\ message[k].id = svcOut[r][i].data.messageId
              /\ message[k].role = "assistant"
              /\ message[k].conversationId = svcOut[r][i].data.conversationId
    /\ AssistantWrites(r) = <<>> => DonesWithMessageId(r) = {}
    /\ \A i \in SsePositions(sse[r], {"done"}) :
         "messageId" \in DOMAIN sse[r][i].data => AssistantWrites(r) # <<>>

\* a request has emitted its final done event
C32_Witness ==
  \E r \in StreamReqs : Finished(r) /\ DonesWithMessageId(r) # {}

\* the agents named by the routing events of the request
RoutedAgents(r) ==
  { svcOut[r][i].data.agent : i \in Positions(svcOut[r], {"routing"}) }

\* C33: in streaming mode the category saved on the assistant message and
\* the agentType of the final done event are the agent of the request's
\* routing event, and no assistant message is saved with a category for a
\* request that emitted no routing event
C33_CategoryIsTheRoutedAgent ==
  \A r \in StreamReqs :
    /\ \A k \in 1..Len(AssistantWrites(r)) :
         {RowOf(AssistantWrites(r)[k].id).agentType} = RoutedAgents(r)
    /\ \A i \in DonesWithMessageId(r) : {svcOut[r][i].data.agentType} = RoutedAgents(r)

\* ---- the rate limiter
\* the limiter has just answered a request of a key
Limited == limiter.last # None

Rejected == Limited /\ ~limiter.last.val.next

\* the entry of the last request's key: before the request and now
EntryBefore == limiter.last.val.before

EntryNow == limiter.store[limiter.last.val.key]

\* C34: the rate limiter admits at most maxRequests requests per key in one
\* window: the first request of a window sets the count to 1, every later
\* one increments it, and each request that raises the count above
\* maxRequests is rejected with a 429 error before the handler runs
C34_AtMostMaxRequestsPerWindow ==
  /\ \A k \in ChatKeys : limiter.admitted[k] <= CHAT_MAX_REQUESTS
  /\ (Limited /\ limiter.now = limiter.last.val.at /\ EntryNow # None) =>
       /\ (EntryBefore = None \/ EntryBefore.val.resetTime < limiter.last.val.at)
            => EntryNow.val.count = 1
       /\ (EntryBefore # None /\ EntryBefore.val.resetTime >= limiter.last.val.at)
            => EntryNow.val.count = EntryBefore.val.count + 1
       /\ Rejected <=> EntryNow.val.count > CHAT_MAX_REQUESTS
  /\ Rejected => limiter.last.val.response.val.status = 429

\* C39: a request rejected by the rate limiter never extends the window of
\* its key: resetTime is fixed when the window opens, so a client that goes
\* on sending while it is limited is admitted again by its first request
\* after resetTime has passed, which opens a new window with count 1
C39_RejectionKeepsTheWindow ==
  (Limited /\ limiter.now = limiter.last.val.at) =>
    /\ Rejected => EntryNow.val.resetTime = EntryBefore.val.resetTime
    /\ (EntryBefore # None /\ EntryBefore.val.resetTime < limiter.last.val.at) =>
         /\ limiter.last.val.next
         /\ EntryNow = Some([count |-> 1, resetTime |-> limiter.last.val.at + WINDOW_MS])

\* a key that was limited in its window has been admitted after the window
C39_Witness ==
  /\ Limited
  /\ limiter.now = limiter.last.val.at
  /\ EntryBefore # None
  /\ EntryBefore.val.count > CHAT_MAX_REQUESTS + 1
  /\ EntryBefore.val.resetTime < limiter.last.val.at
  /\ limiter.last.val.next
  /\ EntryNow.val.count = 1

\* C38: every successful requestRefund carries a refundAmount that is
\* strictly positive and at most the payment's original amount, whatever
\* amount was requested (zero, negative or none), and isPartialRefund is
\* true exactly when refundAmount is below the original amount
C38_RefundAmountPositiveAndBounded ==
  (LastCall("requestRefund") /\ executed[1].out.success) =>
    LET request == executed[1].out.refundRequest
    IN /\ request.refundAmount > 0
       /\ request.refundAmount <= request.originalAmount
       /\ request.isPartialRefund <=> (request.refundAmount < request.originalAmount)

\* C37: a chat request made for user U with the id of an existing
\* conversation appends messages only to a conversation U owns
C37_AppendsOnlyToOwnConversation ==
  \A r \in Reqs :
    input[r].conversationId # 0 =>
      \A i \in 1..Len(writes[r]) :
        conversation[message[writes[r][i].id].conversationId].userId = input[r].userId

\* ---- the title under concurrent requests
\* the request loaded a history of exactly one message, so it goes on to
\* generateTitle once its assistant message is saved
SawOneMessage(r) == Len(svc[r].history) = 1

Titlers(c) == { r \in Reqs : SawOneMessage(r) /\ svc[r].conversationId = c }

\* C36: chat requests write the title of a conversation at most once: in
\* every interleaving of requests on the same conversation at most one of
\* them loads a history of exactly one message and calls generateTitle,
\* and a title that is set is never replaced by another
C36_TitleWrittenAtMostOnce ==
  [][ /\ \A c \in DOMAIN conversation' : Cardinality(Titlers(c)') <= 1
      /\ \A c \in DOMAIN conversation :
           conversation[c].title # None => conversation'[c].title = conversation[c].title
    ]_vars

\* two requests completed on one conversation that had no message: one of
\* them loaded one message and the title is written
C36_Witness ==
  /\ Completed(1) /\ Completed(2)
  /\ svc[1].conversationId = svc[2].conversationId
  /\ Cardinality(Titlers(svc[1].conversationId)) = 1
  /\ Len(Stored(svc[1].conversationId)) = 4
  /\ conversation[svc[1].conversationId].title # None

\* ---- the rows of the message table
\* C35: messages are immutable once created: no step of a chat request, of
\* the title generation or of a tool changes the role, content, category or
\* tool list of a stored message or removes a single message; a message is
\* gone only when its whole conversation is
C35_MessagesAreImmutable ==
  [][ \A i \in 1..Len(message) :
        \/ /\ i <= Len(message')
           /\ message'[i] = message[i]
        \/ /\ message[i].conversationId \notin DOMAIN conversation'
           /\ \A j \in 1..Len(message') : message'[j].conversationId # message[i].conversationId
    ]_vars

\* a conversation that held messages has been answered and titled, and a
\* tool that acts on an order has run
C35_Witness ==
  /\ Completed(1)
  /\ Len(writes[1]) = 2
  /\ writes[1][1].id > 1
  /\ LastCall("cancelOrder")
  /\ executed[1].out.success

\* ---- the events the web client reads
\* what the reader should yield for the events the server wrote
Written(sent) == [i \in 1..Len(sent) |-> [type |-> << sent[i].type >>, data |-> sent[i].data]]

\* C40: however the bytes of the response are cut into chunks, and also when
\* identical data lines repeat, api.streamMessage yields the events the
\* server wrote: each once, in order, with the type it was sent with
C40_ReaderYieldsWhatWasWritten ==
  reader.done => reader.yielded = Written(reader.sent)

====
